---- MODULE Spec2Model ----
(***************************************************************************)
(* Find/replace panel of the Obsidian plugin "super-regex": scanning a     *)
(* corpus for matches, per-match inclusion, batch replace and undo.        *)
(*                                                                         *)
(* The repository holds the panel twice: src/main.js ("main") and the      *)
(* paged rewrite in src/unnamed/part_000, lines 898-1738 ("paged").  The   *)
(* variable `variant` selects which of the two a behaviour runs.           *)
(*                                                                         *)
(* Strings are sequences of one-character strings; offsets are 0-based as  *)
(* in the JavaScript source, so the character at offset i of s is s[i+1].  *)
(***************************************************************************)
EXTENDS Integers, Sequences, FiniteSets, TLC

\* MAX_MATCHES is 20000 in src/main.js:29 and 10000 in
\* src/unnamed/part_000:930; the model scales it down.
MAX_MATCHES == 4
\* MAX_HISTORY is 10 in src/main.js:30 and src/unnamed/part_000:931; scaled down.
MAX_HISTORY == 2
\* PAGE_SIZE is 1000 in src/unnamed/part_000:932; scaled down.
PAGE_SIZE == 2
\* How many searches one behaviour starts.
MaxSearches == 2
\* How many batch replaces a behaviour with inclusion toggles starts.
MaxReplaces == 1
\* How many matches the user has excluded at any one time.
MaxExcluded == 1
\* How many batches the history's behaviours record.
MaxPushes == 3
\* A match budget no line of the model's documents exhausts.
Uncapped == 12
\* How many calls of getReplacementText the behaviours keep.
MaxPreviews == 6
\* The clicks on Replace All of one behaviour of the impatient user.
MaxClicks == 2
\* The iterations of one line loop that a behaviour follows.
MaxSpin == 6

NL == "\n"
None == "none"

Min(a, b) == IF a < b THEN a ELSE b
Max(a, b) == IF a > b THEN a ELSE b

(***************************************************************************)
(* String primitives of the host language.                                 *)
(***************************************************************************)
\* String.prototype.substring(a, b), arguments clamped to [0, length].
Substring(s, a, b) ==
    LET lo == Max(0, Min(a, Len(s)))
        hi == Max(0, Min(b, Len(s)))
    IN  SubSeq(s, Min(lo, hi) + 1, Max(lo, hi))

\* The canonical form of a character under the i flag of a regular
\* expression, on the model's alphabet: one character for one character.
LowerChar(c) == IF c = "A" THEN "a" ELSE c

\* String.prototype.toLowerCase, on the model's alphabet.  "I" stands for
\* U+0130 (capital I with dot above), whose lower case is two code units:
\* "i" and the combining dot above, written ".".
LowerCase(c) ==
    IF c = "A" THEN <<"a">>
    ELSE IF c = "I" THEN <<"i", ".">>
    ELSE <<c>>

RECURSIVE ToLowerCase(_)
ToLowerCase(s) ==
    IF s = <<>> THEN <<>> ELSE LowerCase(Head(s)) \o ToLowerCase(Tail(s))

\* Offset of the first character c at or after offset `from`, or -1.
RECURSIVE IndexOfChar(_, _, _)
IndexOfChar(s, c, from) ==
    IF from >= Len(s) THEN -1
    ELSE IF s[from + 1] = c THEN from
    ELSE IndexOfChar(s, c, from + 1)

\* String.prototype.split(sep) for a one-character separator.
RECURSIVE SplitOn(_, _)
SplitOn(s, sep) ==
    LET i == IndexOfChar(s, sep, 0)
    IN  IF i = -1 THEN <<s>>
        ELSE <<SubSeq(s, 1, i)>> \o SplitOn(SubSeq(s, i + 2, Len(s)), sep)

\* content.split('\n'): a trailing separator yields a trailing empty line.
Split(s) == SplitOn(s, NL)

\* lines.join('\n')
RECURSIVE Join(_)
Join(lines) ==
    IF Len(lines) = 0 THEN <<>>
    ELSE IF Len(lines) = 1 THEN lines[1]
    ELSE lines[1] \o <<NL>> \o Join(Tail(lines))

\* Only the empty text counts as blank.
OnlyEmpty(s) == s = <<>>

\* String.prototype.trim() leaves nothing.
IsBlank(s) == \A i \in 1..Len(s) : s[i] \in {" ", NL}

\* String.prototype.includes('|')
IsPipe(s) == \E i \in 1..Len(s) : s[i] = "|"

\* String.prototype.indexOf(needle, from) for a non-empty needle, or -1.
RECURSIVE IndexOf(_, _, _)
IndexOf(s, needle, from) ==
    IF from + Len(needle) > Len(s) THEN -1
    ELSE IF SubSeq(s, from + 1, from + Len(needle)) = needle THEN from
    ELSE IndexOf(s, needle, from + 1)

(***************************************************************************)
(* The regular-expression facility, on the fragment the queries use:       *)
(* alternatives separated by "|", each a sequence of characters with an    *)
(* optional "*" after a character, and the word-boundary assertion \b      *)
(* that the whole-word option adds.  Matching is the backtracking search   *)
(* of the host engine: alternatives in order, "*" greedy.                  *)
(***************************************************************************)
IsWordChar(c) == c \in {"a", "b", "A", "i"}

\* \b holds at offset pos of line.
Boundary(line, pos) ==
    LET before == pos > 0 /\ IsWordChar(line[pos])
        after  == pos < Len(line) /\ IsWordChar(line[pos + 1])
    IN  before # after

\* `new RegExp` throws SyntaxError ("nothing to repeat") on these.
ValidAlt(alt) ==
    \A i \in 1..Len(alt) : alt[i] = "*" => (i > 1 /\ alt[i - 1] # "*")

RECURSIVE Atoms(_)
Atoms(alt) ==
    IF Len(alt) = 0 THEN <<>>
    ELSE IF Len(alt) >= 2 /\ alt[2] = "*"
         THEN <<[c |-> alt[1], star |-> TRUE]>> \o Atoms(SubSeq(alt, 3, Len(alt)))
         ELSE <<[c |-> alt[1], star |-> FALSE]>> \o Atoms(Tail(alt))

\* new RegExp(pattern, flags), with \b placed where the caller's wrapping
\* puts it: grouped = TRUE is \b(?:pattern)\b, FALSE is \bpattern\b, in
\* which the alternation binds looser than the assertions.
Compile(pattern, ci, ww, grouped) ==
    LET parts == SplitOn(pattern, "|")
        n     == Len(parts)
    IN  [valid |-> \A i \in 1..n : ValidAlt(parts[i]),
         ci    |-> ci,
         alts  |-> [i \in 1..n |->
                     [atoms |-> IF ValidAlt(parts[i]) THEN Atoms(parts[i]) ELSE <<>>,
                      lead  |-> ww /\ (grouped \/ i = 1),
                      trail |-> ww /\ (grouped \/ i = n)]]]

\* buildRegex of the paged panel.
buildRegex(pattern, ci, ww) == Compile(pattern, ci, ww, TRUE)

CharEq(x, c, ci) == IF ci THEN LowerChar(x) = LowerChar(c) ELSE x = c

\* Length of the run of c starting at offset pos.
RECURSIVE RunLen(_, _, _, _)
RunLen(line, pos, c, ci) ==
    IF pos < Len(line) /\ CharEq(line[pos + 1], c, ci)
    THEN 1 + RunLen(line, pos + 1, c, ci)
    ELSE 0

\* End offset of the match of atoms[k..] at offset pos, or -1.
RECURSIVE MatchAtoms(_, _, _, _, _, _), TryStar(_, _, _, _, _, _, _)
MatchAtoms(atoms, k, line, pos, trail, ci) ==
    IF k > Len(atoms)
    THEN IF trail /\ ~Boundary(line, pos) THEN -1 ELSE pos
    ELSE IF atoms[k].star
         THEN TryStar(atoms, k, line, pos, trail, ci, RunLen(line, pos, atoms[k].c, ci))
         ELSE IF pos < Len(line) /\ CharEq(line[pos + 1], atoms[k].c, ci)
              THEN MatchAtoms(atoms, k + 1, line, pos + 1, trail, ci)
              ELSE -1

TryStar(atoms, k, line, pos, trail, ci, j) ==
    LET r == MatchAtoms(atoms, k + 1, line, pos + j, trail, ci)
    IN  IF r # -1 THEN r
        ELSE IF j = 0 THEN -1
        ELSE TryStar(atoms, k, line, pos, trail, ci, j - 1)

\* End offset of the match of one alternative at offset pos, or -1.
MatchAlt(alt, ci, line, pos) ==
    IF alt.lead /\ ~Boundary(line, pos) THEN -1
    ELSE MatchAtoms(alt.atoms, 1, line, pos, alt.trail, ci)

\* The first alternative's result r if it matched, else the later ones'.
FirstOf(r, later) == IF r # -1 THEN r ELSE later

\* End offset of the match of the alternatives i.. at offset pos, or -1.
RECURSIVE MatchAlts(_, _, _, _)
MatchAlts(re, i, line, pos) ==
    IF i > Len(re.alts) THEN -1
    ELSE FirstOf(MatchAlt(re.alts[i], re.ci, line, pos),
                 MatchAlts(re, i + 1, line, pos))

NoMatch == [index |-> -1, end |-> -1]

\* RegExp.prototype.exec with the g flag: the leftmost match at or after
\* lastIndex; on a hit lastIndex becomes the match's end, which for an
\* empty match is the match's own index.
\* The match at offset index if the alternatives matched there (e is its
\* end), else the match found further right.
MatchOr(index, e, further) ==
    IF e # -1 THEN [index |-> index, end |-> e] ELSE further

RECURSIVE Exec(_, _, _)
Exec(re, line, lastIndex) ==
    IF lastIndex > Len(line) THEN NoMatch
    ELSE MatchOr(lastIndex, MatchAlts(re, 1, line, lastIndex),
                 Exec(re, line, lastIndex + 1))

\* RegExp.prototype.test
Test(re, s) == Exec(re, s, 0).index # -1

(***************************************************************************)
(* searchInFile: the per-line match loops and the commit to this.matches.  *)
(* `len` is this.matches.length when the line is scanned.                  *)
(***************************************************************************)
\* The regex branch's while loop over one line.
\* lineMatches.push({ start, end, text: line.substring(start, end) })
LineMatch(line, start, end) ==
    [start |-> start, end |-> end, text |-> Substring(line, start, end)]

\* RegexLineMatches is the loop from its exec call on; RegexLoopBody is
\* the loop's body for the result m of that call.
RECURSIVE RegexLineMatches(_, _, _, _, _, _), RegexLoopBody(_, _, _, _, _, _)
RegexLoopBody(m, re, line, lineMatches, len, maxMatches) ==
    IF m.index = -1 THEN lineMatches
    ELSE IF len + Len(lineMatches) + 1 >= maxMatches
         THEN Append(lineMatches, LineMatch(line, m.index, m.end))
         ELSE RegexLineMatches(re, line, m.end,
                               Append(lineMatches, LineMatch(line, m.index, m.end)),
                               len, maxMatches)

RegexLineMatches(re, line, lastIndex, lineMatches, len, maxMatches) ==
    RegexLoopBody(Exec(re, line, lastIndex), re, line, lineMatches, len, maxMatches)

\* The literal branch's while loop over one line; src and query are the
\* line and the search text, lower-cased when case-insensitive.
RECURSIVE LiteralLineMatches(_, _, _, _, _, _, _, _),
          LiteralLoopBody(_, _, _, _, _, _, _, _)
LiteralLoopBody(i, src, query, line, searchText, lineMatches, len, maxMatches) ==
    IF i = -1 THEN lineMatches
    ELSE IF len + Len(lineMatches) + 1 >= maxMatches
         THEN Append(lineMatches, LineMatch(line, i, i + Len(searchText)))
         ELSE LiteralLineMatches(src, query, line, searchText, i + Len(searchText),
                                 Append(lineMatches,
                                        LineMatch(line, i, i + Len(searchText))),
                                 len, maxMatches)

LiteralLineMatches(src, query, line, searchText, index, lineMatches, len, maxMatches) ==
    LiteralLoopBody(IndexOf(src, query, index), src, query, line, searchText,
                    lineMatches, len, maxMatches)

\* The matches of one line. q is the scan's parameters: searchText, the
\* compiled searchRegex (useRegEx says whether there is one) and maxMatches;
\* ci is settings.caseInsensitive as read during the scan.
LineMatches(q, ci, line, len) ==
    IF q.useRegEx
    THEN RegexLineMatches(q.re, line, 0, <<>>, len, q.maxMatches)
    ELSE LiteralLineMatches(IF ci THEN ToLowerCase(line) ELSE line,
                            IF ci THEN ToLowerCase(q.searchText) ELSE q.searchText,
                            line, q.searchText, 0, <<>>, len, q.maxMatches)

\* The id of a match: `${file.path}-${lineNum}-${m.start}`.
MatchId(m) == <<m.file, m.lineNum, m.start>>

\* Every collected match of the line is pushed, whatever the match set
\* holds already.
PushAll(file, lineNum, line, lineMatches, k, ms, count, maxMatches) ==
    [matches |-> ms \o [n \in 1..(Len(lineMatches) - k + 1) |->
                           [file |-> file, lineNum |-> lineNum, line |-> line,
                            start |-> lineMatches[n + k - 1].start,
                            end |-> lineMatches[n + k - 1].end,
                            text |-> lineMatches[n + k - 1].text]],
     count |-> count + Len(lineMatches) - k + 1,
     returned |-> FALSE]

\* for (const m of lineMatches): push, or return once the budget is used.
\* Yields the match set, the file's count and whether the function returned.
RECURSIVE PushLine(_, _, _, _, _, _, _, _)
PushLine(file, lineNum, line, lineMatches, k, ms, count, maxMatches) ==
    IF k > Len(lineMatches) THEN [matches |-> ms, count |-> count, returned |-> FALSE]
    ELSE IF Len(ms) >= maxMatches THEN [matches |-> ms, count |-> count, returned |-> TRUE]
    ELSE PushLine(file, lineNum, line, lineMatches, k + 1,
                  Append(ms, [file |-> file, lineNum |-> lineNum, line |-> line,
                              start |-> lineMatches[k].start,
                              end |-> lineMatches[k].end,
                              text |-> lineMatches[k].text]),
                  count + 1, maxMatches)

\* String.prototype.trim()
RECURSIVE Trim(_)
Trim(s) ==
    IF s = <<>> THEN s
    ELSE IF Head(s) \in {" ", NL} THEN Trim(Tail(s))
    ELSE IF s[Len(s)] \in {" ", NL} THEN Trim(SubSeq(s, 1, Len(s) - 1))
    ELSE s

\* searchText.split('|').map(w => w.trim()).filter(w => w.length > 0): the
\* words of a pipe-separated search, none for a text without a pipe.
PipeWords(searchText) ==
    IF IsPipe(searchText)
    THEN SelectSeq([i \in 1..Len(SplitOn(searchText, "|")) |->
                       Trim(SplitOn(searchText, "|")[i])],
                   LAMBDA w : w # <<>>)
    ELSE <<>>

\* new RegExp(word, ci ? 'i' : '') matches somewhere in the matched text.
\* Every word of a pattern that compiles compiles itself on this fragment.
WordFound(word, ci, text) ==
    /\ Compile(word, ci, FALSE, FALSE).valid
    /\ Test(Compile(word, ci, FALSE, FALSE), text)

\* The words the exec loop adds to foundWords for one line: the loop tests
\* each match it collects; the indexOf loop of a literal search adds none.
WordsFound(q, ci, lineMatches) ==
    IF q.useRegEx
    THEN {q.words[w] : w \in {v \in 1..Len(q.words) :
                \E k \in 1..Len(lineMatches) :
                    WordFound(q.words[v], ci, lineMatches[k].text)}}
    ELSE {}

\* The for loop over the lines.
\* ScanLines is the loop from line lineNum (0-based) on; ScanLine is one
\* line with its collected matches; AfterLine is what follows the pushes p
\* of that line: return, break or the next line.
RECURSIVE ScanLines(_, _, _, _, _, _, _, _), AfterLine(_, _, _, _, _, _, _),
          ScanLine(_, _, _, _, _, _, _, _, _)
AfterLine(p, q, ci, file, lines, lineNum, found) ==
    IF p.returned \/ Len(p.matches) >= q.maxMatches
    THEN [matches |-> p.matches, count |-> p.count, found |-> found]
    ELSE ScanLines(q, ci, file, lines, lineNum + 1, p.matches, p.count, found)

ScanLine(lineMatches, q, ci, file, lines, lineNum, ms, count, found) ==
    AfterLine(PushLine(file, lineNum, lines[lineNum + 1], lineMatches,
                       1, ms, count, q.maxMatches),
              q, ci, file, lines, lineNum,
              found \cup WordsFound(q, ci, lineMatches))

ScanLines(q, ci, file, lines, lineNum, ms, count, found) ==
    IF lineNum >= Len(lines) THEN [matches |-> ms, count |-> count, found |-> found]
    ELSE ScanLine(LineMatches(q, ci, lines[lineNum + 1], Len(ms)),
                  q, ci, file, lines, lineNum, ms, count, found)

\* searchInFile after its read has returned content: the new this.matches,
\* the returned fileMatchCount and the words added to foundWords.
searchInFile(q, ci, file, content, ms) ==
    ScanLines(q, ci, file, Split(content), 0, ms, 0, {})

(***************************************************************************)
(* State.                                                                  *)
(***************************************************************************)
VARIABLES
    variant,     \* "main" (src/main.js) or "paged" (src/unnamed/part_000)
    vault,       \* path -> content of the document
    activeFile,  \* workspace.getActiveFile(): a path, or None
    findText,    \* findInput.value
    replaceText, \* replaceInput.value
    settings,    \* plugin.settings: useRegEx, caseInsensitive, wholeWord, allFiles, replaceEnabled
    matches,     \* this.matches
    excluded,    \* ids that this.pendingReplacements maps to false
    dom,         \* the rendered match items, in order, with their checkboxes
    render,      \* initialBatchRendered, renderLimit, renderedCount, searchInProgress
    header,      \* the text of the results header
    searches,    \* the performSearch invocations of the behaviour, in start order
    frames,      \* callbacks queued with requestAnimationFrame, oldest first
    history,     \* plugin.history, oldest first
    replaces,    \* the performReplacements invocations, in start order
    undos,       \* the undoLast invocations, in start order
    notice,      \* the last Notice shown
    clock,       \* Date.now()
    undoHistory, \* the UndoHistory object of the modal build (part_000, 32-60)
    notFound,    \* the words the not-found container shows, <<>> without one
    faults,      \* the paths whose vault.read and whose vault.modify reject
    searchTimeout, \* how many debounce timers of the find field are pending
    previewed,   \* the calls of getReplacementText made by updatePreviews
    cursor       \* the line loop of searchInFile that is running, if one is

vars == <<variant, vault, activeFile, findText, replaceText, settings, matches,
          excluded, dom, render, header, searches, frames, history, replaces,
          undos, notice, clock, undoHistory, notFound, faults, searchTimeout,
          previewed, cursor>>

\* What no operation of the panel but typing, Enter and the replace field
\* changes.
env    == <<variant, activeFile, undoHistory, faults, searchTimeout, previewed,
           cursor>>
inputs == <<findText, replaceText, settings>>
panel  == <<matches, excluded, dom, render, header, notFound>>

Files == {"f1", "f2"}

\* getMarkdownFiles().sort((a, b) => a.path.localeCompare(b.path))
SortedFiles == <<"f1", "f2">>

Contents ==
    { <<"a", "a", NL, "a", "a", "a">>,
      <<"a", " ", "b">>,
      <<"A", "b", NL>>,
      <<"b", "a", " ", "a">> }

Queries ==
    { <<>>, <<" ">>, <<"a">>, <<"a", "b">>, <<"a", "*">>, <<"*">>,
      <<"a", "|", "b">>, <<"a", "a", "*">> }

Templates == { <<>>, <<"a">>, <<"b", "b">> }

Settings ==
    [useRegEx : BOOLEAN, caseInsensitive : BOOLEAN, wholeWord : BOOLEAN,
     allFiles : BOOLEAN, replaceEnabled : BOOLEAN]

Header(text, count, limit) == [text |-> text, count |-> count, limit |-> limit]

Notice(text, count, files) == [text |-> text, count |-> count, files |-> files]
NoNotice == Notice("", 0, 0)

\* The state of a freshly constructed view (constructor and createUI).
FreshRender ==
    [initialBatchRendered |-> FALSE, renderLimit |-> PAGE_SIZE,
     renderedCount |-> 0, searchInProgress |-> FALSE]

(***************************************************************************)
(* Rendering.                                                              *)
(***************************************************************************)
\* renderMatchesSlice(a, b): one item per match, its checkbox checked
\* unless pendingReplacements has the id as false.
renderMatchesSlice(ms, ex, a, b) ==
    [i \in 1..(b - a) |->
        [id      |-> MatchId(ms[a + i]),
         box     |-> settings.replaceEnabled,
         checked |-> MatchId(ms[a + i]) \notin ex]]

\* updateHeader(limitReached) of the paged panel.
updateHeader(rnd, ms, limitReached) ==
    IF rnd.initialBatchRendered
       /\ (rnd.searchInProgress \/ rnd.renderedCount < Len(ms))
    THEN Header(IF rnd.searchInProgress THEN "showing-bg" ELSE "showing",
                rnd.renderedCount, FALSE)
    ELSE Header("found", Len(ms), limitReached)

\* displayNotFoundWords(searchWords, foundWords): the words the container
\* shows afterwards, `shown` being what it showed before.  src/main.js
\* leaves an existing container alone when every word was found; the paged
\* panel removes it.
displayNotFoundWords(searchWords, foundWords, shown) ==
    LET notFoundWords == SelectSeq(searchWords, LAMBDA w : w \notin foundWords)
    IN  IF notFoundWords # <<>> THEN notFoundWords
        ELSE IF variant = "main" THEN shown ELSE <<>>

\* The last statement of performSearch: src/main.js reports when there are
\* search words, the paged panel when the text has a pipe.
ReportNotFound(searchText, searchWords, foundWords, shown) ==
    IF (variant = "main" /\ searchWords # <<>>)
       \/ (variant # "main" /\ IsPipe(searchText))
    THEN displayNotFoundWords(searchWords, foundWords, shown)
    ELSE shown

\* What the container shows once performSearch has reset the panel: the
\* paged panel removes it, src/main.js does not touch it.
ResetNotFound(shown) == IF variant = "main" THEN shown ELSE <<>>

\* No line loop is running.
NoCursor ==
    [task |-> 0, lineNum |-> 0, lastIndex |-> 0, lineMatches |-> <<>>,
     count |-> 0, found |-> {}]

\* No path is faulty.
NoFaults == [read |-> {}, write |-> {}]

\* The tail of performSearch, after the scan loop: what is rendered, the
\* render state and the header.
FinishSearch(ms, ex, rnd, domv, limitReached) ==
    IF variant = "main"
    THEN [dom |-> renderMatchesSlice(ms, ex, 0, Len(ms)),
          render |-> rnd,
          header |-> Header("found", Len(ms), limitReached)]
    ELSE LET lim  == Min(PAGE_SIZE, Len(ms))
             rnd1 == IF rnd.initialBatchRendered THEN rnd
                     ELSE [rnd EXCEPT !.renderLimit = lim, !.renderedCount = lim]
             rnd2 == [rnd1 EXCEPT !.searchInProgress = FALSE]
         IN  [dom |-> IF rnd.initialBatchRendered THEN domv
                      ELSE renderMatchesSlice(ms, ex, 0, lim),
              render |-> rnd2,
              header |-> updateHeader(rnd2, ms, limitReached)]

(***************************************************************************)
(* performSearch.                                                          *)
(***************************************************************************)
\* The matcher performSearch compiles for the query.
SearchRegex(text) ==
    IF variant = "main"
    THEN Compile(text, settings.caseInsensitive, settings.wholeWord, FALSE)
    ELSE buildRegex(text, settings.caseInsensitive, settings.wholeWord)

\* Why performSearch returns before scanning, or "scan".
PreScan(text) ==
    IF IsBlank(text) THEN "enter"
    ELSE IF ~settings.useRegEx THEN "scan"
    ELSE IF ~SearchRegex(text).valid THEN "invalid"
    ELSE IF variant = "paged" /\ Test(SearchRegex(text), <<>>) THEN "emptymatch"
    ELSE "scan"

SearchFiles ==
    IF settings.allFiles THEN SortedFiles
    ELSE IF activeFile # None THEN <<activeFile>> ELSE <<>>

NewSearch(text, pc, outcome) ==
    [pc |-> pc, outcome |-> outcome,
     searchText |-> text, useRegEx |-> settings.useRegEx,
     re |-> IF settings.useRegEx /\ ~IsBlank(text) THEN SearchRegex(text)
            ELSE Compile(<<>>, FALSE, FALSE, FALSE),
     allFiles |-> settings.allFiles, files |-> SearchFiles, idx |-> 1,
     matchCount |-> 0, limitReached |-> FALSE,
     searchWords |-> PipeWords(text), foundWords |-> {},
     \* for the properties: an earlier search was in flight at the start,
     \* and the documents whose read failed
     raced |-> \E i \in 1..Len(searches) : searches[i].pc # "done",
     unread |-> {},
     \* and how many debounce timers were pending at the start
     pending |-> searchTimeout]

\* The exclusions stay as they are.
keep(pendingReplacements) == pendingReplacements

\* this.pendingReplacements.clear()
clear(pendingReplacements) == {}

\* performSearch up to its first suspension: the match set, the exclusions
\* and the rendered items are reset, the query is checked and compiled, and
\* the first document read is issued.
PerformSearchBegin ==
    LET text == findText
        pre  == PreScan(text)
        rnd0 == [FreshRender EXCEPT !.searchInProgress = (variant = "paged")]
        stop == [rnd0 EXCEPT !.searchInProgress = FALSE]
    IN  /\ matches' = <<>>
        /\ excluded' = clear(excluded)
        /\ frames' = frames
        /\ IF pre # "scan"
           THEN /\ searches' = Append(searches, NewSearch(text, "done", pre))
                /\ dom' = <<>>
                /\ render' = IF variant = "paged" THEN stop ELSE render
                /\ header' = Header(pre, 0, FALSE)
                /\ notFound' = ResetNotFound(notFound)
           ELSE IF SearchFiles = <<>>
           THEN LET f == FinishSearch(<<>>, {}, IF variant = "paged" THEN rnd0 ELSE render,
                                      <<>>, FALSE)
                IN  /\ searches' = Append(searches, NewSearch(text, "done", "found"))
                    /\ dom' = f.dom
                    /\ render' = f.render
                    /\ header' = f.header
                    /\ notFound' = ReportNotFound(text, PipeWords(text), {},
                                                  ResetNotFound(notFound))
           ELSE /\ searches' = Append(searches, NewSearch(text, "read", "running"))
                /\ dom' = <<>>
                /\ render' = IF variant = "paged" THEN rnd0 ELSE render
                /\ header' = IF variant = "paged" THEN Header("searching", 0, FALSE)
                             ELSE header
                /\ notFound' = ResetNotFound(notFound)

\* The document search t is at.
CurrentFile(t) == t.files[t.idx]

\* What performSearch passes to searchInFile: the query, the matcher and
\* maxMatches.
ScanQuery(t) ==
    [searchText |-> t.searchText, useRegEx |-> t.useRegEx, re |-> t.re,
     words |-> t.searchWords,
     maxMatches |-> IF t.allFiles THEN MAX_MATCHES - t.matchCount ELSE MAX_MATCHES]

\* searchInFile has returned r for search i's current document: the match
\* set it left, its count and the words it found.  performSearch goes on
\* to the next document or to its end.
SearchCommit(i, r) ==
    LET t     == searches[i]
        mc    == t.matchCount + r.count
        fw    == t.foundWords \cup r.found
        limit == mc >= MAX_MATCHES
        \* maybeRenderInitialBatch, called after every push
        first == /\ variant = "paged"
                 /\ ~render.initialBatchRendered
                 /\ r.count > 0
                 /\ Len(r.matches) >= PAGE_SIZE
        rnd   == IF first
                 THEN [render EXCEPT !.initialBatchRendered = TRUE,
                                     !.renderLimit = PAGE_SIZE]
                 ELSE render
        fr    == IF first THEN Append(frames, [kind |-> "render", task |-> 0])
                 ELSE frames
    IN  /\ matches' = r.matches
        /\ excluded' = excluded
        /\ IF limit \/ ~t.allFiles \/ (variant = "main" /\ t.idx = Len(t.files))
           THEN LET f == FinishSearch(r.matches, excluded, rnd, dom, limit)
                IN  /\ searches' = [searches EXCEPT ![i].pc = "done",
                                                    ![i].outcome = "found",
                                                    ![i].matchCount = mc,
                                                    ![i].foundWords = fw,
                                                    ![i].limitReached = limit]
                    /\ dom' = f.dom
                    /\ render' = f.render
                    /\ header' = f.header
                    /\ notFound' = ReportNotFound(t.searchText, t.searchWords,
                                                  fw, notFound)
                    /\ frames' = fr
           ELSE /\ dom' = dom
                /\ render' = rnd
                /\ header' = header
                /\ notFound' = notFound
                /\ IF variant = "paged"
                   THEN \* await new Promise(resolve => requestAnimationFrame(resolve)),
                        \* after every document, the last one too
                        /\ searches' = [searches EXCEPT ![i].pc = "yield",
                                                        ![i].matchCount = mc,
                                                        ![i].foundWords = fw]
                        /\ frames' = Append(fr, [kind |-> "resume", task |-> i])
                   ELSE /\ searches' = [searches EXCEPT ![i].idx = t.idx + 1,
                                                        ![i].matchCount = mc,
                                                        ![i].foundWords = fw]
                        /\ frames' = fr

\* The read of search i's current document returns: searchInFile scans it
\* and commits to this.matches, and performSearch goes on to the next
\* document or to its end.
SearchRead(i) ==
    /\ i \in 1..Len(searches)
    /\ searches[i].pc = "read"
    /\ IF CurrentFile(searches[i]) \in faults.read
       THEN \* vault.read rejects; neither searchInFile nor performSearch
            \* catches, so performSearch ends here
            /\ searches' = [searches EXCEPT ![i].pc = "done",
                                            ![i].outcome = "failed",
                                            ![i].unread = @ \cup {CurrentFile(searches[i])}]
            /\ UNCHANGED <<panel, frames>>
       ELSE \E r \in {searchInFile(ScanQuery(searches[i]), settings.caseInsensitive,
                                     CurrentFile(searches[i]),
                                     vault[CurrentFile(searches[i])], matches)} :
               SearchCommit(i, r)
    /\ UNCHANGED <<env, vault, inputs, history, replaces, undos, notice, clock>>

(***************************************************************************)
(* searchInFile one loop iteration at a time.  cursor holds the search     *)
(* whose scan is running, the line it is at, the position the next exec or *)
(* indexOf call starts from, the matches collected on the line, and the    *)
(* file's count and found words so far.  The scan is synchronous: while    *)
(* it runs no other handler does.                                          *)
(***************************************************************************)
\* The limit never stops the loop.
LimitNeverHit(len, n, maxMatches) == FALSE

\* if (this.matches.length + lineMatches.length >= maxMatches) break;
LimitHit(len, n, maxMatches) == len + n >= maxMatches

\* What the loop condition yields from position lastIndex: exec's match, or
\* indexOf's hit with the end that index += searchText.length moves to.
Hit(q, ci, line, lastIndex) ==
    IF q.useRegEx THEN Exec(q.re, line, lastIndex)
    ELSE LET i == IndexOf(IF ci THEN ToLowerCase(line) ELSE line,
                          IF ci THEN ToLowerCase(q.searchText) ELSE q.searchText,
                          lastIndex)
         IN  IF i = -1 THEN NoMatch ELSE [index |-> i, end |-> i + Len(q.searchText)]

\* The read of search i's current document returns and the loop over its
\* lines starts at the first line.
ScanBegin(i) ==
    /\ i \in 1..Len(searches)
    /\ searches[i].pc = "read"
    /\ cursor.task = 0
    /\ CurrentFile(searches[i]) \notin faults.read
    /\ cursor' = [NoCursor EXCEPT !.task = i]
    /\ UNCHANGED <<variant, activeFile, undoHistory, faults, searchTimeout, previewed,
                   vault, inputs, panel, searches, frames, history, replaces, undos,
                   notice, clock>>

\* One evaluation of the loop condition and, on a hit, of the loop body.
\* The loop goes round, or it ends: then the line's matches are pushed and
\* the scan goes to the next line or returns to performSearch.
ExecStep(i) ==
    /\ i \in 1..Len(searches)
    /\ cursor.task = i
    /\ \E q \in {ScanQuery(searches[i])} :
       \E lines \in {Split(vault[CurrentFile(searches[i])])} :
       \E m \in {Hit(q, settings.caseInsensitive, lines[cursor.lineNum + 1],
                     cursor.lastIndex)} :
       \E lm \in {IF m.index = -1 THEN cursor.lineMatches
                  ELSE Append(cursor.lineMatches,
                              LineMatch(lines[cursor.lineNum + 1], m.index, m.end))} :
          IF m.index # -1 /\ ~LimitHit(Len(matches), Len(lm), q.maxMatches)
          THEN /\ Len(cursor.lineMatches) < MaxSpin
               /\ cursor' = [cursor EXCEPT !.lastIndex = m.end, !.lineMatches = lm]
               /\ UNCHANGED <<panel, searches, frames>>
          ELSE \E p \in {PushLine(CurrentFile(searches[i]), cursor.lineNum,
                                  lines[cursor.lineNum + 1], lm, 1, matches,
                                  cursor.count, q.maxMatches)} :
               \E found \in {cursor.found
                                \cup WordsFound(q, settings.caseInsensitive, lm)} :
                  IF \/ p.returned
                     \/ Len(p.matches) >= q.maxMatches
                     \/ cursor.lineNum + 1 >= Len(lines)
                  THEN /\ cursor' = NoCursor
                       /\ SearchCommit(i, [matches |-> p.matches, count |-> p.count,
                                           found |-> found])
                  ELSE /\ cursor' = [NoCursor EXCEPT !.task = i,
                                                     !.lineNum = cursor.lineNum + 1,
                                                     !.count = p.count,
                                                     !.found = found]
                       /\ matches' = p.matches
                       /\ UNCHANGED <<excluded, dom, render, header, notFound,
                                      searches, frames>>
    /\ UNCHANGED <<variant, activeFile, undoHistory, faults, searchTimeout, previewed,
                   vault, inputs, history, replaces, undos, notice, clock>>

\* The next animation frame runs the oldest queued callback: the first
\* page's render, or the resumption of a search that yielded, which goes
\* on to its next document or, after the last, to its end.
Frame ==
    /\ frames # <<>>
    /\ LET cb == Head(frames)
       IN  IF cb.kind = "render"
           THEN \* renderMatches({ append: false }); updateHeader()
                LET end  == Min(render.renderLimit, Len(matches))
                    rnd  == [render EXCEPT !.renderedCount = end]
                IN  /\ dom' = renderMatchesSlice(matches, excluded, 0, end)
                    /\ render' = rnd
                    /\ header' = updateHeader(rnd, matches, FALSE)
                    /\ searches' = searches
                    /\ notFound' = notFound
           ELSE IF searches[cb.task].idx < Len(searches[cb.task].files)
           THEN /\ searches' = [searches EXCEPT ![cb.task].pc = "read",
                                                ![cb.task].idx = @ + 1]
                /\ UNCHANGED <<dom, render, header, notFound>>
           ELSE \* the loop over the documents is over
                LET f == FinishSearch(matches, excluded, render, dom, FALSE)
                IN  /\ searches' = [searches EXCEPT ![cb.task].pc = "done",
                                                    ![cb.task].outcome = "found"]
                    /\ dom' = f.dom
                    /\ render' = f.render
                    /\ header' = f.header
                    /\ notFound' = ReportNotFound(searches[cb.task].searchText,
                                                  searches[cb.task].searchWords,
                                                  searches[cb.task].foundWords,
                                                  notFound)
    /\ frames' = Tail(frames)
    /\ UNCHANGED <<env, vault, inputs, matches, excluded, history, replaces, undos,
                   notice, clock>>

\* A clearTimeout that has no effect.
keepTimeout(pending) == pending

\* clearTimeout(handle), the handle being that of the timer set last: a
\* pending timer no longer fires.
clearTimeout(pending) == IF pending > 0 THEN pending - 1 ELSE 0

\* Enter in the find field: performSearch runs at once.  src/main.js
\* clears the debounce timer first; the paged panel's timer is out of the
\* handler's reach and stays pending.
Enter ==
    /\ Len(searches) < MaxSearches
    /\ searchTimeout' = IF variant = "main" THEN clearTimeout(searchTimeout)
                        ELSE searchTimeout
    /\ PerformSearchBegin
    /\ UNCHANGED <<variant, previewed, cursor, activeFile, undoHistory, faults, vault, inputs, history,
                   replaces, undos, notice, clock>>

\* findInput.oninput: the field holds a new text; the timer set by the
\* event before is cleared and a new one is set.
Type(text) ==
    /\ text # findText
    /\ findText' = text
    /\ searchTimeout' = clearTimeout(searchTimeout) + 1
    /\ UNCHANGED <<variant, previewed, cursor, activeFile, undoHistory, faults, vault, replaceText,
                   settings, panel, searches, frames, history, replaces, undos,
                   notice, clock>>

\* The debounce timer fires: performSearch runs.
Debounce ==
    /\ searchTimeout > 0
    /\ Len(searches) < MaxSearches
    /\ searchTimeout' = searchTimeout - 1
    /\ PerformSearchBegin
    /\ UNCHANGED <<variant, previewed, cursor, activeFile, undoHistory, faults, vault, inputs, history,
                   replaces, undos, notice, clock>>

\* Nothing is suspended: no search, replace or undo is in flight and no
\* animation-frame callback is queued.
Idle ==
    /\ \A i \in 1..Len(searches) : searches[i].pc = "done"
    /\ \A i \in 1..Len(replaces) : replaces[i].pc = "done"
    /\ \A i \in 1..Len(undos) : undos[i].pc = "done"
    /\ frames = <<>>

\* The vault turns faulty for a path: from now on its reads (kind "read")
\* or its writes (kind "write") reject.
Fault(kind, f) ==
    /\ f \notin faults[kind]
    /\ faults' = [faults EXCEPT ![kind] = @ \cup {f}]
    /\ UNCHANGED <<variant, previewed, cursor, activeFile, undoHistory, searchTimeout, vault, inputs,
                   panel, searches, frames, history, replaces, undos, notice, clock>>

(***************************************************************************)
(* Inclusion toggles.                                                      *)
(***************************************************************************)
\* The checkbox of rendered item k changes: onchange updates
\* pendingReplacements under the item's match id.
ToggleMatch(k) ==
    /\ k \in 1..Len(dom)
    /\ dom[k].box
    /\ dom' = [dom EXCEPT ![k].checked = ~@]
    /\ excluded' = IF dom[k].checked THEN excluded \cup {dom[k].id}
                   ELSE excluded \ {dom[k].id}
    /\ UNCHANGED <<env, vault, inputs, matches, render, header, notFound, searches,
                   frames, history, replaces, undos, notice, clock>>

\* Deselect All that also drops the undo history.
deselectAllAndForget ==
    /\ variant = "paged"
    /\ settings.replaceEnabled
    /\ excluded' = excluded \cup {MatchId(matches[k]) : k \in 1..Len(matches)}
    /\ dom' = [k \in 1..Len(dom) |->
                 IF dom[k].box THEN [dom[k] EXCEPT !.checked = FALSE] ELSE dom[k]]
    /\ history' = <<>>
    /\ UNCHANGED <<env, vault, inputs, matches, render, header, notFound, searches,
                   frames, replaces, undos, notice, clock>>

\* Deselect All of the paged panel: every match of the match set is
\* excluded and every rendered checkbox is unchecked.
deselectAll ==
    /\ variant = "paged"
    /\ settings.replaceEnabled
    /\ excluded' = excluded \cup {MatchId(matches[k]) : k \in 1..Len(matches)}
    /\ dom' = [k \in 1..Len(dom) |->
                 IF dom[k].box THEN [dom[k] EXCEPT !.checked = FALSE] ELSE dom[k]]
    /\ UNCHANGED <<env, vault, inputs, matches, render, header, notFound, searches,
                   frames, history, replaces, undos, notice, clock>>

\* Load more of the paged panel, shown while renderedCount is below the
\* number of matches: the next page is rendered after the items there are,
\* and the header is updated without the limit flag.
loadMore ==
    /\ variant = "paged"
    /\ render.renderedCount < Len(matches)
    /\ LET end == Min(render.renderedCount + PAGE_SIZE, Len(matches))
           rnd == [render EXCEPT !.renderedCount = end]
       IN  /\ dom' = dom \o renderMatchesSlice(matches, excluded,
                                               render.renderedCount, end)
           /\ render' = rnd
           /\ header' = updateHeader(rnd, matches, FALSE)
    /\ UNCHANGED <<env, vault, inputs, matches, excluded, notFound, searches,
                   frames, history, replaces, undos, notice, clock>>

(***************************************************************************)
(* getReplacementText and performReplacements.                             *)
(***************************************************************************)
\* String.prototype.replace(regex, repl) with the g flag, for a repl
\* without "$": every match from left to right, stepping over an empty
\* match by one character.
\* Where the search resumes after match m.
Advance(m) == IF m.end = m.index THEN m.end + 1 ELSE m.end

RECURSIVE ReplaceRegex(_, _, _, _, _, _), ReplaceMatch(_, _, _, _, _, _)
ReplaceMatch(m, text, re, rp, nextPos, acc) ==
    IF m.index = -1 THEN acc \o Substring(text, nextPos, Len(text))
    ELSE IF m.index >= nextPos
         THEN ReplaceRegex(text, re, rp, Advance(m), m.end,
                           acc \o Substring(text, nextPos, m.index) \o rp)
         ELSE ReplaceRegex(text, re, rp, Advance(m), nextPos, acc)

ReplaceRegex(text, re, rp, lastIndex, nextPos, acc) ==
    ReplaceMatch(Exec(re, text, lastIndex), text, re, rp, nextPos, acc)

\* The regex getReplacementText builds from the find field: src/main.js
\* leaves the whole-word option out, the paged panel uses buildRegex.
PreviewRegex ==
    IF variant = "main"
    THEN Compile(findText, settings.caseInsensitive, FALSE, FALSE)
    ELSE buildRegex(findText, settings.caseInsensitive, settings.wholeWord)

\* The matched text comes back as the preview.
EchoMatch(matchText, value) == matchText

\* The body of getReplacementText, value being replaceInput.value.
ReplacementText(matchText, value) ==
    IF settings.useRegEx
    THEN IF PreviewRegex.valid
         THEN ReplaceRegex(matchText, PreviewRegex, value, 0, 0, <<>>)
         ELSE matchText
    ELSE value

getReplacementText(matchText) == ReplacementText(matchText, replaceText)

\* One call of getReplacementText while the replace field holds value, with
\* what it reads and what it returns.
PreviewCall(matchText, value) ==
    [matchText |-> matchText, replaceText |-> value, findText |-> findText,
     useRegEx |-> settings.useRegEx, caseInsensitive |-> settings.caseInsensitive,
     wholeWord |-> settings.wholeWord, out |-> ReplacementText(matchText, value)]

\* updatePreviews: every match with a rendered item has its preview drawn
\* again, and renderMatchPreview asks getReplacementText for every one that
\* is not excluded.  Yields the calls, in order.
updatePreviews(value) ==
    LET asked == SelectSeq(matches, LAMBDA m :
                     /\ \E k \in 1..Len(dom) : dom[k].id = MatchId(m)
                     /\ settings.replaceEnabled
                     /\ MatchId(m) \notin excluded)
    IN  [k \in 1..Len(asked) |-> PreviewCall(asked[k].text, value)]

\* replaceInput.oninput: the field holds a new template and the previews
\* are drawn again.
ReplaceInput(text) ==
    /\ text # replaceText
    /\ replaceText' = text
    /\ UNCHANGED <<variant, activeFile, undoHistory, faults, searchTimeout, cursor,
                   vault, findText, settings, panel, searches, frames, history,
                   replaces, undos, notice, clock>>
    /\ \E calls \in {updatePreviews(text)} :
          /\ Len(previewed) + Len(calls) <= MaxPreviews
          /\ previewed' = previewed \o calls

\* b sorts before a under the comparator of fileMatches.sort: descending
\* line, then descending start.
Later(a, b) ==
    IF a.lineNum # b.lineNum THEN a.lineNum > b.lineNum ELSE a.start > b.start

\* Array.prototype.sort with that comparator (stable).
RECURSIVE InsertDesc(_, _)
InsertDesc(sorted, m) ==
    IF sorted = <<>> THEN <<m>>
    ELSE IF Later(m, Head(sorted)) THEN <<m>> \o sorted
    ELSE <<Head(sorted)>> \o InsertDesc(Tail(sorted), m)

RECURSIVE SortDesc(_)
SortDesc(ms) ==
    IF ms = <<>> THEN <<>>
    ELSE InsertDesc(SortDesc(SubSeq(ms, 1, Len(ms) - 1)), ms[Len(ms)])

\* The loop that splices every match of one file into lines, in the order
\* given. A match whose line is missing makes line.slice throw: the loop
\* ends there, with the replacements counted so far.
\* line.slice(0, m.start) + replacement + line.slice(m.end)
Splice(line, m) ==
    Substring(line, 0, m.start) \o getReplacementText(m.text)
        \o Substring(line, m.end, Len(line))

RECURSIVE ApplyMatches(_, _, _, _)
ApplyMatches(lines, ms, k, n) ==
    IF k > Len(ms) THEN [lines |-> lines, n |-> n, threw |-> FALSE]
    ELSE IF ms[k].lineNum >= Len(lines) THEN [lines |-> lines, n |-> n, threw |-> TRUE]
    ELSE ApplyMatches([lines EXCEPT ![ms[k].lineNum + 1] = Splice(@, ms[k])],
                      ms, k + 1, n + 1)

\* The matches as grouped, in scan order: what the loop would be given
\* without the sort.
ScanOrder(ms) == ms

\* The order in which performReplacements applies a file's matches.
ApplyOrder(ms) == SortDesc(ms)

\* One file of the batch, from the content read to the content to write.
Rewritten(r) == [modified |-> Join(r.lines), n |-> r.n, threw |-> r.threw]

RewriteFile(original, ms) ==
    Rewritten(ApplyMatches(Split(original), ApplyOrder(ms), 1, 0))

\* Group by file: Map insertion order is first appearance.
RECURSIVE FilesOf(_, _)
FilesOf(ms, seen) ==
    IF ms = <<>> THEN <<>>
    ELSE IF Head(ms).file \in seen THEN FilesOf(Tail(ms), seen)
    ELSE <<Head(ms).file>> \o FilesOf(Tail(ms), seen \cup {Head(ms).file})

MatchesOfFile(ms, f) == SelectSeq(ms, LAMBDA m : m.file = f)

GroupByFile(ms) ==
    LET fs == FilesOf(ms, {})
    IN  [i \in 1..Len(fs) |-> [file |-> fs[i], ms |-> MatchesOfFile(ms, fs[i])]]

\* push, then pop instead of shift: on overflow the newest entry goes.
PushOpDropNewest(hist, op) ==
    IF Len(hist) + 1 > MAX_HISTORY THEN hist ELSE Append(hist, op)

\* push without the shift: nothing is evicted.
PushOpUnbounded(hist, op) == Append(hist, op)

\* The operation performReplacements records, and the history after it.
PushOp(hist, op) ==
    LET h == Append(hist, op)
    IN  IF Len(h) > MAX_HISTORY THEN Tail(h) ELSE h

\* if (totalReplacements > 0 && changes.length > 0)
Recorded(total, changes) == total > 0 /\ Len(changes) > 0

\* The timestamp of the entry the batch records, or -1.
Stamp(total, changes) == IF Recorded(total, changes) THEN clock ELSE -1

\* What performReplacements does after its loop over the files: record
\* the operation, tell the user, and start the refreshing search.
ReplaceEnd(j, total, changes) ==
    /\ IF Recorded(total, changes)
       THEN /\ history' = PushOp(history,
                            [timestamp |-> clock, count |-> total, changes |-> changes,
                             find |-> findText, replace |-> replaceText])
            /\ clock' = clock + 1
       ELSE UNCHANGED <<history, clock>>
    /\ notice' = Notice("replaced", total, Len(changes))
    /\ PerformSearchBegin

\* performReplacements(ms) up to its first read.
PerformReplacementsBegin(ms) ==
    /\ replaces' = Append(replaces,
          [pc |-> "read", groups |-> GroupByFile(ms), idx |-> 1,
           original |-> <<>>, modified |-> <<>>, changes |-> <<>>, total |-> 0,
           \* for the properties: the documents, the match set and the
           \* unchecked items at the start, every rewrite, the entry recorded,
           \* the paths whose processing ended in the catch, the matches
           \* handed over, the exclusions at the start, the paths written
           before |-> vault, scanned |-> matches,
           unchecked |-> {k \in 1..Len(dom) : ~dom[k].checked},
           rewrote |-> <<>>, stamp |-> -1, failed |-> {},
           handed |-> ms, excludedAt |-> excluded, wrote |-> {},
           \* how many searches had started: the scan the matches are of,
           \* and the history at the start
           scan |-> Len(searches), had |-> history])
    /\ UNCHANGED <<env, vault, inputs, panel, searches, frames, history, undos,
                   notice, clock>>

\* replaceAll: every match that pendingReplacements does not exclude.
ReplaceAll ==
    /\ settings.replaceEnabled
    /\ matches # <<>>
    /\ LET replacements == SelectSeq(matches, LAMBDA m : MatchId(m) \notin excluded)
       IN  IF replacements = <<>>
           THEN /\ notice' = Notice("none-selected", 0, 0)
                /\ UNCHANGED <<env, vault, inputs, panel, searches, frames, history,
                               replaces, undos, clock>>
           ELSE PerformReplacementsBegin(replacements)

\* matchesContainer.querySelector('[data-match-id="id"] .match-checkbox'):
\* the first rendered checkbox under that id is there and is checked.
CheckboxChecked(id) ==
    /\ \E k \in 1..Len(dom) : dom[k].id = id /\ dom[k].box
    /\ dom[CHOOSE k \in 1..Len(dom) :
               /\ dom[k].id = id /\ dom[k].box
               /\ \A h \in 1..(k - 1) : ~(dom[h].id = id /\ dom[h].box)].checked

\* replaceSelected: every match whose rendered checkbox is checked.
replaceSelected ==
    /\ settings.replaceEnabled
    /\ matches # <<>>
    /\ LET selected == SelectSeq(matches, LAMBDA m : CheckboxChecked(MatchId(m)))
       IN  IF selected = <<>>
           THEN /\ notice' = Notice("no-matches-selected", 0, 0)
                /\ UNCHANGED <<env, vault, inputs, panel, searches, frames, history,
                               replaces, undos, clock>>
           ELSE PerformReplacementsBegin(selected)

\* Every change is recorded, whether or not its write went through.
RecordAnyway(changes, ch, rejected) == Append(changes, ch)

\* yield vault.modify(file, modified); changes.push(...): a write that
\* rejects leaves the push out.
RecordChange(changes, ch, rejected) ==
    IF rejected THEN changes ELSE Append(changes, ch)

\* performReplacements goes from the file it is at, whose processing is
\* over, to the next file's read or, after the last, to its end.
ReplNext(j, done) ==
    IF done.idx < Len(done.groups)
    THEN /\ replaces' = [replaces EXCEPT ![j] = [done EXCEPT !.pc = "read",
                                                             !.idx = @ + 1]]
         /\ UNCHANGED <<inputs, panel, searches, frames, history, notice, clock>>
    ELSE /\ replaces' = [replaces EXCEPT
                           ![j] = [done EXCEPT !.pc = "done",
                                               !.stamp = Stamp(done.total, done.changes)]]
         /\ ReplaceEnd(j, done.total, done.changes)
         /\ UNCHANGED inputs

\* The read of replace j's current file returns: its matches are applied
\* and, if the content changed, the write is issued.  A read that rejects
\* and a splice that throws end in the catch, which goes on to the next file.
ReplRead(j) ==
    /\ j \in 1..Len(replaces)
    /\ replaces[j].pc = "read"
    /\ IF replaces[j].groups[replaces[j].idx].file \in faults.read
       THEN ReplNext(j, [replaces[j] EXCEPT
                           !.failed = @ \cup {replaces[j].groups[replaces[j].idx].file}])
       ELSE
       \E r \in {RewriteFile(vault[replaces[j].groups[replaces[j].idx].file],
                               replaces[j].groups[replaces[j].idx].ms)} :
       LET t     == replaces[j]
           g     == t.groups[t.idx]
           orig  == vault[g.file]
           total == t.total + r.n
           done  == [t EXCEPT !.total = total, !.original = orig,
                              !.modified = r.modified,
                              !.failed = IF r.threw THEN @ \cup {g.file} ELSE @,
                              !.rewrote = Append(@, [file |-> g.file, original |-> orig,
                                                     ms |-> g.ms, threw |-> r.threw,
                                                     modified |-> r.modified])]
       IN  IF ~r.threw /\ r.modified # orig
           THEN /\ replaces' = [replaces EXCEPT ![j] = [done EXCEPT !.pc = "write"]]
                /\ UNCHANGED <<inputs, panel, searches, frames, history, notice, clock>>
           ELSE ReplNext(j, done)
    /\ UNCHANGED <<env, vault, undos>>

\* The write of replace j's current file returns: the change is recorded,
\* unless the write rejected.
ReplWrite(j) ==
    /\ j \in 1..Len(replaces)
    /\ replaces[j].pc = "write"
    /\ LET t        == replaces[j]
           g        == t.groups[t.idx]
           rejected == g.file \in faults.write
           changes  == RecordChange(t.changes,
                                    [path |-> g.file, before |-> t.original,
                                     after |-> t.modified],
                                    rejected)
           done     == [t EXCEPT !.changes = changes,
                                 !.failed = IF rejected THEN @ \cup {g.file} ELSE @,
                                 !.wrote = IF rejected THEN @ ELSE @ \cup {g.file}]
       IN  /\ vault' = IF rejected THEN vault
                       ELSE [vault EXCEPT ![g.file] = t.modified]
           /\ ReplNext(j, done)
    /\ UNCHANGED <<env, undos>>

(***************************************************************************)
(* undoLast.                                                               *)
(***************************************************************************)
\* The last entry is read and stays where it is.
PeekOp(hist) == [op |-> hist[Len(hist)], rest |-> hist]

\* history.pop(): the entry undoLast takes, and what stays.
PopOp(hist) == [op |-> hist[Len(hist)], rest |-> SubSeq(hist, 1, Len(hist) - 1)]

\* No text at all.
SaysNothing == Notice("", 0, 0)

\* new Notice('Nothing to revert.')
NothingToRevert == Notice("nothing-to-revert", 0, 0)

\* undoLast up to its first write.
UndoLast ==
    IF history = <<>>
    THEN /\ notice' = NothingToRevert
         /\ UNCHANGED <<env, vault, inputs, panel, searches, frames, history,
                        replaces, undos, clock>>
    ELSE LET p == PopOp(history)
         IN  /\ history' = p.rest
             /\ IF p.op.changes = <<>>
                THEN /\ notice' = NothingToRevert
                     /\ undos' = undos
                ELSE /\ undos' = Append(undos,
                                  [pc |-> "write", op |-> p.op, idx |-> 1,
                                   revertedFiles |-> 0,
                                   \* for the properties: the documents, the
                                   \* history and the number of batches at the
                                   \* start, and the paths written
                                   at |-> vault, had |-> history,
                                   nrep |-> Len(replaces), wrote |-> <<>>,
                                   \* and the paths whose write rejected
                                   rejected |-> {}])
                     /\ notice' = notice
             /\ UNCHANGED <<env, vault, inputs, panel, searches, frames, replaces, clock>>

\* The other content a change records.
Redone(ch) == ch.after

\* The content undoLast writes for a change: modify(af, ch.before).
Reverted(ch) == ch.before

\* Every write-back counts, whether or not it went through.
CountedAnyway(revertedFiles, rejected) == revertedFiles + 1

\* revertedFiles++ comes after the write in the try block: a write that
\* rejects leaves it out.
Counted(revertedFiles, rejected) ==
    IF rejected THEN revertedFiles ELSE revertedFiles + 1

\* The write-back of undo u's current change returns; one that rejects is
\* caught and does not count as a reverted file.
UndoWrite(u) ==
    /\ u \in 1..Len(undos)
    /\ undos[u].pc = "write"
    /\ LET t        == undos[u]
           ch       == t.op.changes[t.idx]
           rejected == ch.path \in faults.write
           n        == Counted(t.revertedFiles, rejected)
           wrote    == IF rejected THEN t.wrote ELSE Append(t.wrote, ch.path)
           rej      == IF rejected THEN t.rejected \cup {ch.path} ELSE t.rejected
       IN  /\ vault' = IF rejected THEN vault
                       ELSE [vault EXCEPT ![ch.path] = Reverted(ch)]
           /\ IF t.idx < Len(t.op.changes)
              THEN /\ undos' = [undos EXCEPT ![u].idx = t.idx + 1,
                                             ![u].revertedFiles = n,
                                             ![u].wrote = wrote,
                                             ![u].rejected = rej]
                   /\ notice' = notice
              ELSE /\ undos' = [undos EXCEPT ![u].pc = "done",
                                             ![u].revertedFiles = n,
                                             ![u].wrote = wrote,
                                             ![u].rejected = rej]
                   /\ notice' = Notice("reverted", t.op.count, n)
    /\ UNCHANGED <<env, inputs, panel, searches, frames, history, replaces, clock>>

(***************************************************************************)
(* The UndoHistory class of the modal build (src/unnamed/part_000, 32-60). *)
(* An entry is identified by its timestamp; the newest entry is first.     *)
(***************************************************************************)
\* new UndoHistory(), with maxSize as onload sets it from the settings.
NewUndoHistory == [history |-> <<>>, maxSize |-> MAX_HISTORY, removed |-> <<>>]

\* add(operation): unshift, then one pop if the array is longer than maxSize.
add(h, maxSize, operation) ==
    IF Len(h) + 1 > maxSize THEN SubSeq(<<operation>> \o h, 1, Len(h))
    ELSE <<operation>> \o h

\* removeLastOperation(): shift.
removeLastOperation(h) == [op |-> Head(h), rest |-> Tail(h)]

\* performReplace records an operation: undoHistory.add({ timestamp, ... }).
UndoHistoryAdd ==
    /\ clock < MaxPushes
    /\ undoHistory' = [undoHistory EXCEPT
                         !.history = add(@, undoHistory.maxSize, [timestamp |-> clock])]
    /\ clock' = clock + 1
    /\ UNCHANGED <<variant, previewed, cursor, activeFile, faults, searchTimeout, vault, inputs, panel,
                   searches, frames, history, replaces, undos, notice>>

\* new Notice('No operations to undo')
NoOperations == Notice("no-operations", 0, 0)

\* undoLastOperation: with isEmpty() it only tells the user; else it takes
\* the entry to revert with removeLastOperation().  `removed` keeps, for
\* the properties, what was taken, what the array held and how many
\* operations had been added.
UndoHistoryRemove ==
    /\ IF undoHistory.history = <<>>
       THEN /\ notice' = NoOperations
            /\ undoHistory' = undoHistory
       ELSE /\ undoHistory' = [undoHistory EXCEPT
                                !.history = removeLastOperation(@).rest,
                                !.removed = Append(@, [op  |-> removeLastOperation(
                                                                  undoHistory.history).op,
                                                       had |-> undoHistory.history,
                                                       added |-> clock])]
            /\ notice' = notice
    /\ UNCHANGED <<variant, previewed, cursor, activeFile, faults, searchTimeout, vault, inputs, panel,
                   searches, frames, history, replaces, undos, clock>>

\* The Clear History button of the settings tab: undoHistory.clear().
UndoHistoryClear ==
    /\ undoHistory' = [undoHistory EXCEPT !.history = <<>>]
    /\ notice' = Notice("history-cleared", 0, 0)
    /\ UNCHANGED <<variant, previewed, cursor, activeFile, faults, searchTimeout, vault,
                   inputs, panel, searches, frames, history, replaces, undos, clock>>

\* The value of a decimal digit, -1 for any other character.
DigitOf(c) ==
    CASE c = "0" -> 0 [] c = "1" -> 1 [] c = "2" -> 2 [] c = "3" -> 3
      [] OTHER -> -1

\* The number the leading digits of value spell, after acc.
RECURSIVE LeadingNumber(_, _)
LeadingNumber(value, acc) ==
    IF value = <<>> \/ DigitOf(Head(value)) = -1 THEN acc
    ELSE LeadingNumber(Tail(value), acc * 10 + DigitOf(Head(value)))

\* parseInt(value) on texts without sign or leading blanks: NaN unless the
\* text starts with a digit.
parseInt(value) ==
    IF value = <<>> \/ DigitOf(Head(value)) = -1 THEN [nan |-> TRUE, num |-> 0]
    ELSE [nan |-> FALSE, num |-> LeadingNumber(value, 0)]

\* The Maximum Undo History field of the settings tab changes to value: a
\* positive number becomes the maxSize of the history, anything else is
\* ignored.
SetMaxUndoHistory(value) ==
    /\ undoHistory' = IF ~parseInt(value).nan /\ parseInt(value).num > 0
                      THEN [undoHistory EXCEPT !.maxSize = parseInt(value).num]
                      ELSE undoHistory
    /\ UNCHANGED <<variant, previewed, cursor, activeFile, faults, searchTimeout, vault,
                   inputs, panel, searches, frames, history, replaces, undos, notice,
                   clock>>

(***************************************************************************)
(* The modal of the modal build (src/unnamed/part_000, 62-126, 657-800),   *)
(* with the regular-expression toggle off.  matches holds the matches of   *)
(* the preview pane, replaces the performReplace invocations.              *)
(***************************************************************************)
\* The while loop of findMatchesInContent over one line: indexOf from the
\* index, which then goes past the search string.
RECURSIVE findMatchesInLine(_, _, _, _)
findMatchesInLine(line, lineIndex, searchString, index) ==
    LET i == IndexOf(line, searchString, index)
    IN  IF i = -1 THEN <<>>
        ELSE <<[line |-> lineIndex, ch |-> i, text |-> searchString]>>
             \o findMatchesInLine(line, lineIndex, searchString,
                                  i + Len(searchString))

\* findMatchesInContent(content, searchString, false, flags), from line
\* lineIndex on.
RECURSIVE findMatchesInContent(_, _, _)
findMatchesInContent(lines, lineIndex, searchString) ==
    IF lineIndex >= Len(lines) THEN <<>>
    ELSE findMatchesInLine(lines[lineIndex + 1], lineIndex, searchString, 0)
         \o findMatchesInContent(lines, lineIndex + 1, searchString)

\* findMatches: the matches of every file in scope, none skipped.
RECURSIVE findMatches(_, _)
findMatches(searchString, files) ==
    IF files = <<>> THEN <<>>
    ELSE LET fileMatches == findMatchesInContent(Split(vault[Head(files)]), 0,
                                                 searchString)
         IN  [k \in 1..Len(fileMatches) |->
                 [file |-> Head(files), line |-> fileMatches[k].line,
                  ch |-> fileMatches[k].ch, matchText |-> fileMatches[k].text,
                  skip |-> FALSE]]
             \o findMatches(searchString, Tail(files))

\* performLiveSearch: the preview pane shows the matches of the find field
\* in the files in scope.
performLiveSearch ==
    /\ variant = "modal"
    /\ matches' = IF findText = <<>> THEN <<>> ELSE findMatches(findText, SearchFiles)
    /\ UNCHANGED <<env, vault, inputs, excluded, dom, render, header, notFound,
                   searches, frames, history, replaces, undos, notice, clock>>

\* The Skip and Replace buttons of preview item k.
Skip(k) ==
    /\ variant = "modal"
    /\ k \in 1..Len(matches)
    /\ matches' = [matches EXCEPT ![k].skip = ~@]
    /\ UNCHANGED <<env, vault, inputs, excluded, dom, render, header, notFound,
                   searches, frames, history, replaces, undos, notice, clock>>

\* getApprovedMatches()
getApprovedMatches == SelectSeq(matches, LAMBDA m : ~m.skip)

\* fileMatches.sort: descending line, then descending ch.
RECURSIVE InsertModal(_, _)
InsertModal(sorted, m) ==
    IF sorted = <<>> THEN <<m>>
    ELSE IF (IF m.line # Head(sorted).line THEN m.line > Head(sorted).line
             ELSE m.ch > Head(sorted).ch)
         THEN <<m>> \o sorted
         ELSE <<Head(sorted)>> \o InsertModal(Tail(sorted), m)

RECURSIVE SortModal(_)
SortModal(ms) ==
    IF ms = <<>> THEN <<>>
    ELSE InsertModal(SortModal(SubSeq(ms, 1, Len(ms) - 1)), ms[Len(ms)])

\* fileMatches.forEach: a match on a line the content has is spliced in
\* and counted.
RECURSIVE ApplyModal(_, _, _, _, _, _)
ApplyModal(lines, ms, k, n, searchString, replaceString) ==
    IF k > Len(ms) THEN [lines |-> lines, n |-> n]
    ELSE IF ms[k].line < Len(lines)
         THEN ApplyModal(
                 [lines EXCEPT ![ms[k].line + 1] =
                     Substring(@, 0, ms[k].ch) \o replaceString
                       \o Substring(@, ms[k].ch + Len(searchString), Len(@))],
                 ms, k + 1, n + 1, searchString, replaceString)
         ELSE ApplyModal(lines, ms, k + 1, n, searchString, replaceString)

\* if (fileOperations.length > 0) this.plugin.undoHistory.add(...)
addOperation(h, maxSize, operation) ==
    IF Len(operation.fileOperations) > 0 THEN add(h, maxSize, operation) ELSE h

\* performReplace up to its first read.
performReplace ==
    /\ variant = "modal"
    /\ IF findText = <<>>
       THEN /\ notice' = Notice("nothing-to-search", 0, 0)
            /\ replaces' = replaces
       ELSE IF getApprovedMatches = <<>>
       THEN /\ notice' = Notice("no-matches-selected", 0, 0)
            /\ replaces' = replaces
       ELSE /\ notice' = notice
            /\ replaces' = Append(replaces,
                  [pc |-> "read",
                   groups |-> [n \in 1..Len(FilesOf(getApprovedMatches, {})) |->
                                 [file |-> FilesOf(getApprovedMatches, {})[n],
                                  ms |-> MatchesOfFile(getApprovedMatches,
                                            FilesOf(getApprovedMatches, {})[n])]],
                   idx |-> 1, searchString |-> findText, replaceString |-> replaceText,
                   original |-> <<>>, modified |-> <<>>,
                   fileOperations |-> <<>>, total |-> 0,
                   \* for the properties: every rewrite, the paths written,
                   \* the timestamp of the entry recorded
                   rewrote |-> <<>>, wrote |-> {}, stamp |-> -1])
    /\ UNCHANGED <<env, vault, inputs, panel, searches, frames, history, undos, clock>>

\* The read of performReplace j's current file returns: the file's matches
\* are applied to its lines and the write is issued.  A read that rejects
\* ends performReplace.
ModalRead(j) ==
    /\ j \in 1..Len(replaces)
    /\ variant = "modal"
    /\ replaces[j].pc = "read"
    /\ IF replaces[j].groups[replaces[j].idx].file \in faults.read
       THEN replaces' = [replaces EXCEPT ![j].pc = "done"]
       ELSE \E r \in {ApplyModal(Split(vault[replaces[j].groups[replaces[j].idx].file]),
                                 SortModal(replaces[j].groups[replaces[j].idx].ms),
                                 1, 0, replaces[j].searchString,
                                 replaces[j].replaceString)} :
              replaces' = [replaces EXCEPT
                 ![j].pc = "write",
                 ![j].original = vault[replaces[j].groups[replaces[j].idx].file],
                 ![j].modified = Join(r.lines),
                 ![j].total = @ + r.n,
                 ![j].rewrote = Append(@,
                     [file |-> replaces[j].groups[replaces[j].idx].file,
                      original |-> vault[replaces[j].groups[replaces[j].idx].file],
                      modified |-> Join(r.lines)])]
    /\ UNCHANGED <<env, vault, inputs, panel, searches, frames, history, undos,
                   notice, clock>>

\* The write of performReplace j's current file returns: the file operation
\* is pushed, and after the last file the operation is added to the undo
\* history, the modal is closed and the user is told.  A write that rejects
\* ends performReplace.
ModalWrite(j) ==
    /\ j \in 1..Len(replaces)
    /\ variant = "modal"
    /\ replaces[j].pc = "write"
    /\ LET t    == replaces[j]
           g    == t.groups[t.idx]
           ops  == Append(t.fileOperations,
                          [path |-> g.file, originalContent |-> t.original])
       IN  IF g.file \in faults.write
           THEN /\ replaces' = [replaces EXCEPT ![j].pc = "done"]
                /\ UNCHANGED <<vault, undoHistory, clock, notice, matches>>
           ELSE /\ vault' = [vault EXCEPT ![g.file] = t.modified]
                /\ IF t.idx < Len(t.groups)
                   THEN /\ replaces' = [replaces EXCEPT ![j].pc = "read",
                                                        ![j].idx = @ + 1,
                                                        ![j].fileOperations = ops,
                                                        ![j].wrote = @ \cup {g.file}]
                        /\ UNCHANGED <<undoHistory, clock, notice, matches>>
                   ELSE /\ replaces' = [replaces EXCEPT ![j].pc = "done",
                                                        ![j].fileOperations = ops,
                                                        ![j].wrote = @ \cup {g.file},
                                                        ![j].stamp = clock]
                        /\ undoHistory' = [undoHistory EXCEPT
                              !.history = addOperation(@, undoHistory.maxSize,
                                              [timestamp |-> clock,
                                               fileOperations |-> ops])]
                        /\ clock' = clock + 1
                        /\ notice' = Notice("replaced", t.total, Len(ops))
                        /\ matches' = <<>>
    /\ UNCHANGED <<variant, activeFile, faults, searchTimeout, previewed, cursor, inputs,
                   excluded, dom, render, header, notFound, searches, frames,
                   history, undos>>

(***************************************************************************)
(* Searches: every corpus, query and option; Enter may start a search      *)
(* while an earlier one is still reading.                                  *)
(***************************************************************************)
\* The view and the plugin right after construction.
Fresh ==
    /\ matches = <<>>
    /\ excluded = {}
    /\ dom = <<>>
    /\ render = FreshRender
    /\ header = Header("", 0, FALSE)
    /\ searches = <<>>
    /\ frames = <<>>
    /\ history = <<>>
    /\ replaces = <<>>
    /\ undos = <<>>
    /\ notice = NoNotice
    /\ clock = 0
    /\ undoHistory = NewUndoHistory
    /\ notFound = <<>>
    /\ searchTimeout = 0
    /\ previewed = <<>>
    /\ cursor = NoCursor

InitSearch ==
    /\ variant \in {"main", "paged"}
    /\ vault \in [Files -> Contents]
    /\ activeFile \in Files \cup {None}
    /\ findText \in Queries
    /\ replaceText = <<>>
    /\ settings \in {s \in Settings : s.replaceEnabled}
    /\ faults = NoFaults
    /\ Fresh

NextSearch ==
    \/ Enter
    \/ \E i \in 1..MaxSearches : SearchRead(i)
    \/ Frame

SpecSearch == InitSearch /\ [][NextSearch]_vars

(***************************************************************************)
(* Properties of a search.                                                 *)
(***************************************************************************)
\* The parameters of search t with the given budget.
ScanParams(t, budget) ==
    [searchText |-> t.searchText, useRegEx |-> t.useRegEx, re |-> t.re,
     words |-> t.searchWords, maxMatches |-> budget]

\* Every match of a document, found with a budget that never runs out.
AllMatchesIn(t, file) ==
    searchInFile(ScanParams(t, Uncapped), settings.caseInsensitive,
                 file, vault[file], <<>>).matches

RECURSIVE CorpusMatches(_, _)
CorpusMatches(t, k) ==
    IF k > Len(t.files) THEN <<>>
    ELSE AllMatchesIn(t, t.files[k]) \o CorpusMatches(t, k + 1)

\* No match in ms is empty.
NoneEmpty(ms) == \A k \in 1..Len(ms) : ms[k].end > ms[k].start

\* The behaviour's only search has run to its end.
Completed ==
    /\ Len(searches) = 1
    /\ searches[1].pc = "done"
    /\ searches[1].outcome = "found"

\* performSearch's loop over the documents from document idx on, with no
\* other search running: the match set it ends with.
RECURSIVE RunAlone(_, _, _, _), RunAloneNext(_, _, _, _)
RunAloneNext(r, t, idx, matchCount) ==
    IF matchCount + r.count >= MAX_MATCHES THEN r.matches
    ELSE RunAlone(t, idx + 1, r.matches, matchCount + r.count)

RunAlone(t, idx, ms, matchCount) ==
    IF idx > Len(t.files) THEN ms
    ELSE RunAloneNext(searchInFile(ScanQuery([t EXCEPT !.matchCount = matchCount]),
                                   settings.caseInsensitive, t.files[idx],
                                   vault[t.files[idx]], ms),
                      t, idx, matchCount)

\* What search t produces on its own.
Alone(t) == IF t.outcome = "found" THEN RunAlone(t, 1, <<>>, 0) ELSE <<>>

\* C1: when a search was started while an earlier one was in flight, then
\* once every search has finished the match set is what the latest-started
\* search produces on its own.
C1_LatestSearchWins ==
    (/\ searches # <<>>
     /\ searches[Len(searches)].raced
     /\ Idle)
    => matches = Alone(searches[Len(searches)])

\* C2: a completed search over a corpus with more than MAX_MATCHES matches
\* returns exactly MAX_MATCHES matches and sets limitReached.
C2_CapExact ==
    (/\ Completed
     /\ NoneEmpty(CorpusMatches(searches[1], 1))
     /\ Len(CorpusMatches(searches[1], 1)) > MAX_MATCHES)
    => (Len(matches) = MAX_MATCHES /\ searches[1].limitReached)

\* C3: a completed search over a corpus with fewer than MAX_MATCHES matches
\* returns every match of every document and does not set limitReached.
C3_AllReturned ==
    (/\ Completed
     /\ NoneEmpty(CorpusMatches(searches[1], 1))
     /\ Len(CorpusMatches(searches[1], 1)) < MAX_MATCHES)
    => (matches = CorpusMatches(searches[1], 1) /\ ~searches[1].limitReached)

\* C8: in the paged panel the matches one search records on one line are
\* in strictly increasing start order and their ranges do not overlap.
C8_LineOrder ==
    (variant = "paged" /\ Len(searches) = 1)
    => \A i, j \in 1..Len(matches) :
          (i < j /\ matches[i].file = matches[j].file
                 /\ matches[i].lineNum = matches[j].lineNum)
          => (matches[i].start < matches[j].start
              /\ matches[i].end <= matches[j].start)

\* C9: in the paged panel, whose pre-scan checks test the matcher against
\* the empty string, no match a search records is zero-width.
C9_NoZeroWidth ==
    (variant = "paged" /\ Len(searches) = 1) => NoneEmpty(matches)

\* The pattern as typed matches the empty string.
MatchesEmpty(text) == Test(Compile(text, FALSE, FALSE, FALSE), <<>>)

\* C10: in the paged panel a regex query whose pattern can match the empty
\* string is rejected before any scan: the search ends at once with its own
\* message and the match set stays empty.
C10_EmptyRejected ==
    (/\ variant = "paged"
     /\ Len(searches) = 1
     /\ searches[1].useRegEx
     /\ ~IsBlank(searches[1].searchText)
     /\ searches[1].re.valid
     /\ MatchesEmpty(searches[1].searchText))
    => (/\ searches[1].pc = "done"
        /\ searches[1].outcome = "emptymatch"
        /\ header.text = "emptymatch"
        /\ matches = <<>>)

\* No two matches of ms have the same id.
UniqueIds(ms) ==
    \A i, j \in 1..Len(ms) : i < j => MatchId(ms[i]) # MatchId(ms[j])

\* C11: the match set of one completed search pass has no two matches with
\* the same identifier (path, line, start).
C11_UniqueIds == Completed => UniqueIds(matches)

\* The pipe-separated terms of a text, blanks off their ends.
Terms(text) ==
    {Trim(SplitOn(text, "|")[i]) : i \in 1..Len(SplitOn(text, "|"))} \ {<<>>}

\* term occurs in some document that search t scanned, letter case counting
\* unless the search ignores it.
Occurs(term, t) ==
    \E k \in 1..Len(t.files) :
        IF settings.caseInsensitive
        THEN IndexOf(ToLowerCase(vault[t.files[k]]), ToLowerCase(term), 0) # -1
        ELSE IndexOf(vault[t.files[k]], term, 0) # -1

\* C12: after a completed scan for a literal query with pipes the reported
\* not-found set is exactly the set of its terms that occur nowhere in the
\* scanned documents.
C12_NotFoundExact ==
    (/\ Completed
     /\ ~searches[1].useRegEx
     /\ IsPipe(searches[1].searchText))
    => {notFound[k] : k \in 1..Len(notFound)}
         = {w \in Terms(searches[1].searchText) : ~Occurs(w, searches[1])}

\* The searches that have started and not ended.
InFlight == {i \in 1..Len(searches) : searches[i].pc # "done"}

\* C16: at most one scan is in flight at any time.
C16_OneScanInFlight == Cardinality(InFlight) <= 1

\* Where a path stands in the sorted list of the documents.
PathRank(f) == CHOOSE k \in 1..Len(SortedFiles) : SortedFiles[k] = f

\* m comes no later than n in canonical order: path, then line, then start.
NoLater(m, n) ==
    IF m.file # n.file THEN PathRank(m.file) < PathRank(n.file)
    ELSE IF m.lineNum # n.lineNum THEN m.lineNum < n.lineNum
    ELSE m.start <= n.start

Canonical(ms) == \A i, j \in 1..Len(ms) : i < j => NoLater(ms[i], ms[j])

\* C19: whenever the scan started last has completed and none is in flight,
\* the match set is in canonical order: path, then line, then start.
C19_CanonicalOrder ==
    (/\ searches # <<>>
     /\ searches[Len(searches)].outcome = "found"
     /\ InFlight = {})
    => Canonical(matches)

(***************************************************************************)
(* Typing in the find field between searches: the query changes, searches  *)
(* start on Enter and when the debounce timer fires.                       *)
(***************************************************************************)
TypedQueries == { <<>>, <<" ">>, <<" ", NL>>, <<"a">>, <<"a", "|", "b">> }

InitTyping ==
    /\ variant \in {"main", "paged"}
    /\ vault \in {v \in [Files -> {<<"a", " ", "b">>, <<"b", "a", " ", "a">>}] :
                     v["f2"] = <<"a", " ", "b">>}
    /\ activeFile = "f1"
    /\ findText \in TypedQueries
    /\ replaceText = <<>>
    /\ settings \in {s \in Settings : s.replaceEnabled /\ ~s.caseInsensitive
                                        /\ ~s.wholeWord /\ ~s.allFiles}
    /\ faults = NoFaults
    /\ Fresh

NextTyping ==
    \/ \E text \in TypedQueries : Type(text)
    \/ Enter
    \/ Debounce
    \/ \E i \in 1..MaxSearches : SearchRead(i)
    \/ Frame

SpecTyping == InitTyping /\ [][NextTyping]_vars

\* s has nothing but whitespace.
Whitespace(s) == \A i \in 1..Len(s) : s[i] \in {" ", NL}

\* A step starts a search.
SearchStarts == Len(searches') = Len(searches) + 1

\* C20: a search for an empty or whitespace-only query ends at once with the
\* inline message: it issues no read, queues nothing, writes nothing and
\* leaves the match set and the rendered items empty.
C20_BlankRejected ==
    [][(SearchStarts /\ Whitespace(findText))
       => (/\ searches'[Len(searches')].pc = "done"
           /\ searches'[Len(searches')].outcome = "enter"
           /\ header'.text = "enter"
           /\ matches' = <<>>
           /\ dom' = <<>>
           /\ frames' = frames
           /\ vault' = vault)]_vars

\* C20's case: after a search that had found matches and had ended, a
\* whitespace-only query was searched for and the match set is empty.
C20_Witness ==
    /\ Len(searches) = 2
    /\ searches[1].outcome = "found"
    /\ searches[1].matchCount > 0
    /\ ~searches[2].raced
    /\ searches[2].searchText # <<>>
    /\ Whitespace(searches[2].searchText)
    /\ searches[2].pc = "done"
    /\ header.text = "enter"
    /\ matches = <<>>

\* C22: Enter starts the search at once and cancels the pending debounced
\* trigger: once a search has started, by Enter or by the timer, no trigger
\* is left pending that would start another search for the earlier
\* keystrokes.
C22_EnterCancelsDebounce ==
    [][SearchStarts => searchTimeout' = 0]_vars

\* C29: every input event cancels the trigger set by the event before and
\* sets a new one, so at most one trigger is pending; a trigger that goes
\* away starts a search, and none is left behind it, so a burst of events
\* ends in one debounced search, after its last event.
C29_DebounceRearmed ==
    [][/\ searchTimeout' <= 1
       /\ (findText' # findText => searchTimeout' = 1)
       /\ (searchTimeout' < searchTimeout
             => SearchStarts /\ searchTimeout' = 0)]_vars

\* C29's case: the paged panel's only search was started by the timer,
\* for the text typed last, and no trigger is pending.
C29_Witness ==
    /\ variant = "paged"
    /\ Len(searches) = 1
    /\ searches[1].pending = 1
    /\ searches[1].searchText = findText
    /\ searchTimeout = 0

(***************************************************************************)
(* Search, toggle and replace by a user who waits for each operation to    *)
(* finish before starting the next.                                        *)
(***************************************************************************)
EditContents ==
    { <<"a", "a", NL, "b", "a">>,
      <<"a", " ", "b">>,
      <<"b", NL>> }

EditQueries == { <<"a">>, <<"a", "|", "b">>, <<"a", "a", "*">>, <<"a", "*">> }

InitEdit ==
    /\ variant \in {"main", "paged"}
    /\ vault \in [Files -> EditContents]
    /\ activeFile = "f1"
    /\ findText \in EditQueries
    /\ replaceText \in Templates
    /\ settings \in {s \in Settings : s.replaceEnabled /\ ~s.caseInsensitive}
    /\ faults = NoFaults
    /\ Fresh

NextEdit ==
    \/ (Idle /\ Enter)
    \/ \E i \in 1..(MaxSearches + MaxReplaces) : SearchRead(i)
    \/ Frame
    \/ \E k \in 1..MAX_MATCHES :
          (Idle /\ ToggleMatch(k) /\ Cardinality(excluded') <= MaxExcluded)
    \/ (Idle /\ Len(replaces) < MaxReplaces /\ ReplaceAll)
    \/ \E j \in 1..MaxReplaces : ReplRead(j)
    \/ \E j \in 1..MaxReplaces : ReplWrite(j)

SpecEdit == InitEdit /\ [][NextEdit]_vars

(***************************************************************************)
(* Properties of a batch replace with inclusion toggles.                   *)
(***************************************************************************)
\* The matches of ms on line lineNum (0-based), in scan order.
OnLine(ms, lineNum) == SelectSeq(ms, LAMBDA m : m.lineNum = lineNum)

\* line with each range of ms[k..] replaced by its replacement text, built
\* from left to right from offset pos on.
RECURSIVE Spliced(_, _, _, _)
Spliced(line, ms, k, pos) ==
    IF k > Len(ms) THEN Substring(line, pos, Len(line))
    ELSE Substring(line, pos, ms[k].start) \o getReplacementText(ms[k].text)
         \o Spliced(line, ms, k + 1, ms[k].end)

\* content with exactly the ranges of ms replaced, all else as it was.
Expected(content, ms) ==
    Join([l \in 1..Len(Split(content)) |->
             Spliced(Split(content)[l], OnLine(ms, l - 1), 1, 0)])

\* The matches of ms whose rendered item (same position) is not in off.
RECURSIVE Checked(_, _, _)
Checked(ms, k, off) ==
    IF k > Len(ms) THEN <<>>
    ELSE IF k \in off THEN Checked(ms, k + 1, off)
    ELSE <<ms[k]>> \o Checked(ms, k + 1, off)

\* The matches of file f that batch t was started with approved.
ApprovedIn(t, f) == MatchesOfFile(Checked(t.scanned, 1, t.unchecked), f)

\* The content of f when batch t has ended.
After(t, f) ==
    IF \E k \in 1..Len(t.changes) : t.changes[k].path = f
    THEN t.changes[CHOOSE k \in 1..Len(t.changes) : t.changes[k].path = f].after
    ELSE t.before[f]

\* C5: a batch started with some items unchecked leaves every document as
\* it was but for the ranges of its checked matches, which are replaced.
C5_OnlyUncheckedKept ==
    \A j \in 1..Len(replaces) :
        (replaces[j].pc = "done" /\ replaces[j].unchecked # {})
        => \A f \in Files :
              After(replaces[j], f)
                = Expected(replaces[j].before[f], ApprovedIn(replaces[j], f))

(***************************************************************************)
(* Search and batch replace over a vault whose reads and writes may fail.  *)
(***************************************************************************)
FaultContents == { <<"a", " ", "b">>, <<"a", "a">> }

FaultQueries == { <<"a">>, <<"a", "|", "b">> }

FaultTemplates == { <<"a">>, <<"b", "b">> }

InitFaults ==
    /\ variant \in {"main", "paged"}
    /\ vault \in [Files -> FaultContents]
    /\ activeFile = "f1"
    /\ findText \in FaultQueries
    /\ replaceText \in FaultTemplates
    /\ settings \in {s \in Settings : s.replaceEnabled /\ ~s.caseInsensitive
                                        /\ ~s.wholeWord}
    /\ faults = NoFaults
    /\ Fresh

NextFaults ==
    \/ \E kind \in {"read", "write"} : \E f \in Files : Fault(kind, f)
    \/ (Idle /\ searches = <<>> /\ Enter)
    \/ \E i \in 1..(1 + MaxReplaces) : SearchRead(i)
    \/ Frame
    \/ (Idle /\ Len(replaces) < MaxReplaces /\ ReplaceAll)
    \/ \E j \in 1..MaxReplaces : ReplRead(j)
    \/ \E j \in 1..MaxReplaces : ReplWrite(j)

SpecFaults == InitFaults /\ [][NextFaults]_vars

\* The documents of search t whose read did not fail.
Readable(t) == SelectSeq(t.files, LAMBDA f : f \notin t.unread)

\* C13: a failed read does not end the search: the search started last,
\* once it has ended, has completed, and the match set is what the scan of
\* its other documents yields.
C13_FailedReadSkipped ==
    (/\ searches # <<>>
     /\ InFlight = {}
     /\ searches[Len(searches)].unread # {})
    => (/\ searches[Len(searches)].outcome = "found"
        /\ matches = RunAlone([searches[Len(searches)] EXCEPT
                                 !.files = Readable(searches[Len(searches)])],
                              1, <<>>, 0))

\* Batch t recorded a change for path f.
HasChange(t, f) == \E k \in 1..Len(t.changes) : t.changes[k].path = f

\* C14: when a batch has ended, a document whose read or write failed has
\* no change record, and every other document of the batch has been
\* processed: its content is the original with the batch's matches replaced.
C14_FailureIsolated ==
    \A j \in 1..Len(replaces) :
        replaces[j].pc = "done"
        => \A n \in 1..Len(replaces[j].groups) :
              IF replaces[j].groups[n].file \in replaces[j].failed
              THEN ~HasChange(replaces[j], replaces[j].groups[n].file)
              ELSE After(replaces[j], replaces[j].groups[n].file)
                     = RewriteFile(replaces[j].before[replaces[j].groups[n].file],
                                   replaces[j].groups[n].ms).modified

\* C14's case: a batch over two documents has ended, the first document's
\* read or write failed and the second was rewritten.
C14_Witness ==
    \E j \in 1..Len(replaces) :
        /\ replaces[j].pc = "done"
        /\ Len(replaces[j].groups) = 2
        /\ replaces[j].groups[1].file \in replaces[j].failed
        /\ HasChange(replaces[j], replaces[j].groups[2].file)
        /\ vault[replaces[j].groups[2].file]
             # replaces[j].before[replaces[j].groups[2].file]

\* The matches of the documents for which batch t recorded a change, from
\* group k on.
RECURSIVE CountRecorded(_, _)
CountRecorded(t, k) ==
    IF k > Len(t.groups) THEN 0
    ELSE (IF HasChange(t, t.groups[k].file) THEN Len(t.groups[k].ms) ELSE 0)
         + CountRecorded(t, k + 1)

\* C15: the total a batch ends with, which it reports and stores in the
\* undo entry, counts the matches of the documents with a change record
\* and no others.
C15_CountsRecordedOnly ==
    \A j \in 1..Len(replaces) :
        replaces[j].pc = "done"
        => replaces[j].total = CountRecorded(replaces[j], 1)

(***************************************************************************)
(* Batch after batch, and undo: the history fills up and overflows.  The   *)
(* modal build's UndoHistory object is exercised on its own.               *)
(***************************************************************************)
HistoryContents ==
    { <<"a", "a", NL, "b", "a">>,
      <<"a", " ", "b">>,
      <<"b", "a", " ", "a">> }

HistoryQueries == { <<"a">>, <<"a", "|", "b">>, <<"a", "*">> }

HistoryTemplates == { <<>>, <<"b", "b">>, <<"b", "a">> }

InitHistory ==
    /\ variant \in {"main", "paged", "modal"}
    /\ vault \in [Files -> HistoryContents]
    /\ activeFile = "f1"
    /\ findText \in HistoryQueries
    /\ replaceText \in HistoryTemplates
    /\ settings \in {s \in Settings : s.replaceEnabled /\ ~s.caseInsensitive}
    /\ variant = "modal"
          => (/\ vault = [f \in Files |-> <<"a", " ", "b">>]
              /\ findText = <<"a">>
              /\ replaceText = <<>>
              /\ ~(settings.useRegEx \/ settings.wholeWord \/ settings.allFiles))
    /\ faults = NoFaults
    /\ Fresh

NextHistory ==
    \/ (variant # "modal" /\ Idle /\ searches = <<>> /\ Enter)
    \/ \E i \in 1..(1 + MaxPushes) : SearchRead(i)
    \/ Frame
    \/ (variant # "modal" /\ Idle /\ Len(replaces) < MaxPushes /\ ReplaceAll)
    \/ \E j \in 1..MaxPushes : ReplRead(j)
    \/ \E j \in 1..MaxPushes : ReplWrite(j)
    \/ (variant # "modal" /\ Idle /\ UndoLast)
    \/ \E u \in 1..MaxPushes : UndoWrite(u)
    \/ (variant = "modal" /\ UndoHistoryAdd)
    \/ (variant = "modal" /\ UndoHistoryRemove)

SpecHistory == InitHistory /\ [][NextHistory]_vars

(***************************************************************************)
(* Properties of batch replace, undo and the history.                      *)
(***************************************************************************)
\* The matches ms[1..k] applied as k batches of one, the last match first.
RECURSIVE OneAtATime(_, _, _)
OneAtATime(content, ms, k) ==
    IF k = 0 THEN content
    ELSE OneAtATime(RewriteFile(content, <<ms[k]>>).modified, ms, k - 1)

\* The document is as the scan saw it.
UnchangedSinceScan(content, ms) ==
    \A k \in 1..Len(ms) :
        /\ ms[k].lineNum < Len(Split(content))
        /\ Split(content)[ms[k].lineNum + 1] = ms[k].line

\* ms, in scan order, has no two overlapping ranges.
NonOverlapping(ms) ==
    \A i, j \in 1..Len(ms) :
        (i < j /\ ms[i].lineNum = ms[j].lineNum) => ms[i].end <= ms[j].start

\* C4: for a document unchanged since the scan, a batch over non-overlapping
\* matches yields what applying them one at a time from the last to the
\* first yields, which is the document with exactly those ranges replaced.
C4_BatchIsLastToFirst ==
    \A j \in 1..Len(replaces) : \A n \in 1..Len(replaces[j].rewrote) :
        (/\ UnchangedSinceScan(replaces[j].rewrote[n].original, replaces[j].rewrote[n].ms)
         /\ NonOverlapping(replaces[j].rewrote[n].ms))
        => (/\ ~replaces[j].rewrote[n].threw
            /\ replaces[j].rewrote[n].modified
                 = OneAtATime(replaces[j].rewrote[n].original,
                              replaces[j].rewrote[n].ms,
                              Len(replaces[j].rewrote[n].ms))
            /\ replaces[j].rewrote[n].modified
                 = Expected(replaces[j].rewrote[n].original,
                            replaces[j].rewrote[n].ms))

\* Two matches of ms on one line, each with a replacement of another length.
TwoOnALine(ms) ==
    /\ \E i, j \in 1..Len(ms) : i < j /\ ms[i].lineNum = ms[j].lineNum
    /\ \A k \in 1..Len(ms) :
          /\ ms[k].end > ms[k].start
          /\ Len(getReplacementText(ms[k].text)) # Len(ms[k].text)

\* C4's case: a batch rewrote an unchanged document at two matches of one
\* line, every replacement of another length than its match.
C4_Witness ==
    \E j \in 1..Len(replaces) : \E n \in 1..Len(replaces[j].rewrote) :
        /\ UnchangedSinceScan(replaces[j].rewrote[n].original, replaces[j].rewrote[n].ms)
        /\ NonOverlapping(replaces[j].rewrote[n].ms)
        /\ TwoOnALine(replaces[j].rewrote[n].ms)
        /\ replaces[j].rewrote[n].modified # replaces[j].rewrote[n].original

\* The documents batch t changed.
Changed(t) == {t.changes[k].path : k \in 1..Len(t.changes)}

\* Undo u has finished, it was started right after the latest batch and
\* nothing has been started since.
UndoneAtOnce(u) ==
    /\ u = Len(undos)
    /\ undos[u].pc = "done"
    /\ undos[u].nrep = Len(replaces)
    /\ undos[u].nrep >= 1
    /\ replaces[undos[u].nrep].stamp = undos[u].op.timestamp

\* C6: an undo right after a batch leaves every document the batch changed
\* with the content it had before the batch, and writes no other document.
C6_UndoRestores ==
    \A u \in 1..Len(undos) :
        UndoneAtOnce(u)
        => (/\ \A f \in Changed(replaces[undos[u].nrep]) :
                  vault[f] = replaces[undos[u].nrep].before[f]
            /\ \A k \in 1..Len(undos[u].wrote) :
                  undos[u].wrote[k] \in Changed(replaces[undos[u].nrep])
            /\ \A f \in Files \ Changed(replaces[undos[u].nrep]) :
                  vault[f] = undos[u].at[f])

\* C6's case: an undo right after a batch that changed both documents has
\* finished and has changed them back.
C6_Witness ==
    \E u \in 1..Len(undos) :
        /\ UndoneAtOnce(u)
        /\ Changed(replaces[undos[u].nrep]) = Files
        /\ \A f \in Files : vault[f] # undos[u].at[f]

RECURSIVE Reverse(_)
Reverse(s) == IF s = <<>> THEN <<>> ELSE Append(Reverse(Tail(s)), Head(s))

\* The timestamps of h, in order.
Stamps(h) == [i \in 1..Len(h) |-> h[i].timestamp]

\* How many entries the build that runs has recorded: entries are stamped
\* 0, 1, ... in the order recorded.
RecordedBy(build) == IF (variant = "modal") = (build = "modal") THEN clock ELSE 0

\* The timestamps of the most recent of `total` recorded entries, at most
\* `capacity` of them, oldest first.
MostRecent(total, capacity) ==
    [i \in 1..Min(total, capacity) |-> total - Min(total, capacity) + i - 1]

\* op is the most recently recorded entry of h.
Newest(op, h) == \A i \in 1..Len(h) : h[i].timestamp <= op.timestamp

\* C7: the history never holds more than its capacity; as long as nothing
\* was undone it holds exactly the most recently recorded entries; and an
\* undo takes the most recently recorded entry.
C7_MostRecentKept ==
    /\ Len(history) <= MAX_HISTORY
    /\ undos = <<>> => Stamps(history) = MostRecent(RecordedBy("panel"), MAX_HISTORY)
    /\ \A u \in 1..Len(undos) : Newest(undos[u].op, undos[u].had)
    /\ Len(undoHistory.history) <= undoHistory.maxSize
    /\ undoHistory.removed = <<>>
          => Stamps(Reverse(undoHistory.history))
               = MostRecent(RecordedBy("modal"), undoHistory.maxSize)
    /\ \A k \in 1..Len(undoHistory.removed) :
          Newest(undoHistory.removed[k].op, undoHistory.removed[k].had)

\* C7's case: more batches were recorded than the history holds, the
\* oldest entry is gone, and an undo has taken the newest.
C7_Witness ==
    /\ variant # "modal"
    /\ clock > MAX_HISTORY
    /\ undos # <<>>
    /\ Len(undos[1].had) = MAX_HISTORY
    /\ undos[1].op.timestamp = clock - 1
    /\ Stamps(undos[1].had) = MostRecent(clock, MAX_HISTORY)

\* The timestamps of the entries of h.
StampSet(h) == {h[i].timestamp : i \in 1..Len(h)}

\* C17: undo is last-in-first-out and one-directional: it takes the newest
\* entry of the history, no entry is taken twice, an entry taken is never
\* in the history again, and of two undos with no batch between them the
\* second takes the entry recorded just before the one the first took.
C17_UndoIsLifo ==
    /\ \A u \in 1..Len(undos) :
          /\ undos[u].op = undos[u].had[Len(undos[u].had)]
          /\ undos[u].op.timestamp \notin StampSet(history)
    /\ \A u, v \in 1..Len(undos) :
          u < v => undos[u].op.timestamp # undos[v].op.timestamp
    /\ \A u \in 1..(Len(undos) - 1) :
          undos[u].nrep = undos[u + 1].nrep
          => (/\ undos[u + 1].had = SubSeq(undos[u].had, 1, Len(undos[u].had) - 1)
              /\ undos[u + 1].op.timestamp < undos[u].op.timestamp)
    /\ \A k \in 1..Len(undoHistory.removed) :
          /\ undoHistory.removed[k].op = Head(undoHistory.removed[k].had)
          /\ undoHistory.removed[k].op.timestamp \notin StampSet(undoHistory.history)
    /\ \A k, l \in 1..Len(undoHistory.removed) :
          k < l => undoHistory.removed[k].op.timestamp
                     # undoHistory.removed[l].op.timestamp
    /\ \A k \in 1..(Len(undoHistory.removed) - 1) :
          undoHistory.removed[k].added = undoHistory.removed[k + 1].added
          => (/\ undoHistory.removed[k + 1].had = Tail(undoHistory.removed[k].had)
              /\ undoHistory.removed[k + 1].op.timestamp
                   < undoHistory.removed[k].op.timestamp)

\* C17's case: two batches were recorded and then two undos ran to their
\* end, the first on the second batch and the second on the first batch.
C17_Witness ==
    /\ variant # "modal"
    /\ Len(undos) = 2
    /\ undos[1].pc = "done"
    /\ undos[2].pc = "done"
    /\ undos[1].nrep = 2
    /\ undos[2].nrep = 2
    /\ undos[1].op.timestamp = replaces[2].stamp
    /\ undos[2].op.timestamp = replaces[1].stamp
    /\ replaces[1].stamp # replaces[2].stamp
    /\ history = <<>>

\* C18: an undo with an empty history tells the user that there is nothing
\* to revert, writes no document, starts no write-back and leaves the
\* history empty; so does the modal build's undo with its own message.
C18_EmptyUndoIsNoOp ==
    [][/\ (variant # "modal" /\ history = <<>> /\ UndoLast)
          => (/\ notice'.text = "nothing-to-revert"
              /\ vault' = vault
              /\ history' = <<>>
              /\ undos' = undos)
       /\ (variant = "modal" /\ undoHistory.history = <<>> /\ UndoHistoryRemove)
          => (/\ notice'.text = "no-operations"
              /\ vault' = vault
              /\ undoHistory' = undoHistory)]_vars

\* C18's case: a batch was undone, which emptied the history, and a
\* further undo found nothing to revert.
C18_Witness ==
    /\ undos # <<>>
    /\ \A u \in 1..Len(undos) : undos[u].pc = "done"
    /\ history = <<>>
    /\ notice.text = "nothing-to-revert"

(***************************************************************************)
(* The whole panel, used by one user who waits for each operation to       *)
(* finish: searches, inclusion toggles, Deselect All, Load more, both      *)
(* replace buttons and undo.                                               *)
(***************************************************************************)
PanelContents == { <<"a", "a", NL, "a", "a">>, <<"a", " ", "b">> }

PanelQueries == { <<"a">> }

PanelTemplates == { <<"a">>, <<"b", "a">> }

InitPanel ==
    /\ variant \in {"main", "paged"}
    /\ vault \in {v \in [Files -> PanelContents] : v["f2"] = <<"a", " ", "b">>}
    /\ activeFile = "f1"
    /\ findText \in PanelQueries
    /\ replaceText \in PanelTemplates
    /\ settings \in {s \in Settings : s.replaceEnabled /\ ~s.caseInsensitive
                                        /\ ~s.wholeWord /\ ~s.useRegEx
                                        /\ ~s.allFiles}
    /\ faults = NoFaults
    /\ Fresh

NextPanel ==
    \/ (Idle /\ Enter)
    \/ \E i \in 1..(MaxSearches + MaxReplaces) : SearchRead(i)
    \/ Frame
    \/ \E k \in 1..MAX_MATCHES :
          (Idle /\ ToggleMatch(k) /\ Cardinality(excluded') <= MaxExcluded)
    \/ (Idle /\ deselectAll)
    \/ (Idle /\ loadMore)
    \/ (Idle /\ Len(replaces) < MaxReplaces /\ ReplaceAll)
    \/ (Idle /\ Len(replaces) < MaxReplaces /\ replaceSelected)
    \/ \E j \in 1..MaxReplaces : ReplRead(j)
    \/ \E j \in 1..MaxReplaces : ReplWrite(j)
    \/ (Idle /\ UndoLast)
    \/ \E u \in 1..MaxReplaces : UndoWrite(u)

SpecPanel == InitPanel /\ [][NextPanel]_vars

\* C23: once a scan that stopped at the cap has completed, the header of
\* the paged panel tells that the limit was reached, after Load more too.
C23_HeaderTellsLimit ==
    (/\ variant = "paged"
     /\ Idle
     /\ searches # <<>>
     /\ searches[Len(searches)].outcome = "found"
     /\ searches[Len(searches)].limitReached)
    => header.limit

\* A match is included: pendingReplacements does not hold false for it.
Included(m, ex) == MatchId(m) \notin ex

\* C24: Replace All and Replace Selected hand to the batch replace exactly
\* the included matches of the match set, in match-set order, whatever part
\* of the match set is rendered.
C24_IncludedHandedOver ==
    \A j \in 1..Len(replaces) :
        replaces[j].handed
          = SelectSeq(replaces[j].scanned,
                      LAMBDA m : Included(m, replaces[j].excludedAt))

\* The ids of the matches of ms.
Ids(ms) == {MatchId(ms[k]) : k \in 1..Len(ms)}

\* C25: a step that starts a search pass leaves the match set, the
\* exclusions and the rendered items empty, and no exclusion is ever held
\* for a match that is not of the current pass; so a match of the new pass
\* is rendered checked.
C25_PassStartsClean ==
    [][/\ SearchStarts => (matches' = <<>> /\ excluded' = {} /\ dom' = <<>>)
       /\ excluded' \subseteq Ids(matches')]_vars

\* C25's case: a batch replace was run with a match excluded, its
\* refreshing pass has completed with matches, and none is excluded.
C25_Witness ==
    /\ Idle
    /\ Len(replaces) = 1
    /\ replaces[1].excludedAt # {}
    /\ searches[Len(searches)].outcome = "found"
    /\ matches # <<>>
    /\ excluded = {}
    /\ \A k \in 1..Len(dom) : dom[k].checked

\* C26: a step that is not a step of a batch replace or of an undo (a
\* search starting or scanning, a rendering frame, an inclusion toggle,
\* Deselect All, Load more) writes no document and leaves the undo history
\* as it is.
C26_OnlyReplaceAndUndoWrite ==
    [][(replaces' = replaces /\ undos' = undos)
       => (vault' = vault /\ history' = history)]_vars

\* C26's case: after a batch replace was recorded, the paged panel has
\* rendered more than the first page and Deselect All has excluded every
\* match.
C26_Witness ==
    /\ variant = "paged"
    /\ Idle
    /\ history # <<>>
    /\ Len(matches) > PAGE_SIZE
    /\ render.renderedCount > PAGE_SIZE
    /\ excluded = Ids(matches)

(***************************************************************************)
(* The replace field: previews are drawn again on every input event.       *)
(***************************************************************************)
PreviewQueries == { <<"a">>, <<"a", "|", "b">>, <<"a", "*">>, <<"*">> }

PreviewTemplates == { <<>>, <<"a">>, <<"b", "b">> }

InitPreview ==
    /\ variant \in {"main", "paged"}
    /\ vault \in {v \in [Files -> PanelContents] : v["f2"] = <<"a", " ", "b">>}
    /\ activeFile = "f1"
    /\ findText \in PreviewQueries
    /\ replaceText \in PreviewTemplates
    /\ settings \in {s \in Settings : s.replaceEnabled /\ ~s.allFiles}
    /\ faults = NoFaults
    /\ Fresh

NextPreview ==
    \/ (Idle /\ searches = <<>> /\ Enter)
    \/ SearchRead(1)
    \/ Frame
    \/ \E text \in PreviewTemplates : (Idle /\ ReplaceInput(text))

SpecPreview == InitPreview /\ [][NextPreview]_vars

\* Two calls read the same matched text, template, query and options.
SameInputs(c, d) ==
    /\ c.matchText = d.matchText
    /\ c.replaceText = d.replaceText
    /\ c.findText = d.findText
    /\ c.useRegEx = d.useRegEx
    /\ c.caseInsensitive = d.caseInsensitive
    /\ c.wholeWord = d.wholeWord

InitUndoFaults ==
    /\ variant \in {"main", "paged"}
    /\ vault \in [Files -> FaultContents]
    /\ activeFile = "f1"
    /\ findText \in FaultQueries
    /\ replaceText \in FaultTemplates
    /\ settings \in {s \in Settings : s.replaceEnabled /\ ~s.caseInsensitive
                                        /\ ~s.wholeWord /\ ~s.useRegEx}
    /\ faults = NoFaults
    /\ Fresh

NextUndoFaults ==
    \/ \E kind \in {"read", "write"} : \E f \in Files : Fault(kind, f)
    \/ (Idle /\ searches = <<>> /\ Enter)
    \/ \E i \in 1..(1 + MaxReplaces) : SearchRead(i)
    \/ Frame
    \/ (Idle /\ Len(replaces) < MaxReplaces /\ ReplaceAll)
    \/ \E j \in 1..MaxReplaces : ReplRead(j)
    \/ \E j \in 1..MaxReplaces : ReplWrite(j)
    \/ (Idle /\ UndoLast)
    \/ \E u \in 1..MaxReplaces : UndoWrite(u)

SpecUndoFaults == InitUndoFaults /\ [][NextUndoFaults]_vars

\* The paths of the changes of operation op.
Paths(op) == {op.changes[k].path : k \in 1..Len(op.changes)}

\* C27: an undo goes through every change of its operation whatever write
\* rejects: when it has ended, and nothing was written since, every
\* document whose write went through holds the content recorded as before,
\* every other document is as the undo found it, and the count the notice
\* tells is the number of writes that went through.
C27_UndoFailureIsolated ==
    \A u \in 1..Len(undos) :
        undos[u].pc = "done"
        => (/\ undos[u].revertedFiles
                 = Cardinality(Paths(undos[u].op) \ undos[u].rejected)
            /\ (u = Len(undos) /\ notice.text = "reverted")
                 => notice.files = undos[u].revertedFiles
            /\ (u = Len(undos) /\ Len(replaces) = undos[u].nrep)
                 => \A k \in 1..Len(undos[u].op.changes) :
                       vault[undos[u].op.changes[k].path]
                         = IF undos[u].op.changes[k].path \in undos[u].rejected
                           THEN undos[u].at[undos[u].op.changes[k].path]
                           ELSE undos[u].op.changes[k].before)

\* C27's case: an undo of two changes has ended, the first change's write
\* rejected and the second document was restored.
C27_Witness ==
    \E u \in 1..Len(undos) :
        /\ undos[u].pc = "done"
        /\ Len(undos[u].op.changes) = 2
        /\ undos[u].op.changes[1].path \in undos[u].rejected
        /\ undos[u].op.changes[2].path \notin undos[u].rejected
        /\ vault[undos[u].op.changes[2].path] = undos[u].op.changes[2].before
        /\ undos[u].op.changes[2].before # undos[u].op.changes[2].after
        /\ undos[u].revertedFiles = 1

(***************************************************************************)
(* Literal searches of the current file, with and without case folding.    *)
(***************************************************************************)
LiteralContents ==
    { <<"a", "b", " ", "b", " ", "a", "b">>,
      <<"a", "a", "a">>,
      <<"A", "b", "a", "b">>,
      <<"b", NL, "a", "b">>,
      <<"I", "a", "b">> }

LiteralQueries == { <<"a">>, <<"a", "b">>, <<"a", "a">> }

InitLiteral ==
    /\ variant \in {"main", "paged"}
    /\ vault \in {v \in [Files -> LiteralContents] : v["f2"] = <<"a", "a", "a">>}
    /\ activeFile = "f1"
    /\ findText \in LiteralQueries
    /\ replaceText = <<>>
    /\ settings \in {s \in Settings : ~s.useRegEx /\ ~s.allFiles /\ ~s.wholeWord}
    /\ faults = NoFaults
    /\ Fresh

NextLiteral ==
    \/ (Idle /\ searches = <<>> /\ Enter)
    \/ SearchRead(1)
    \/ Frame

SpecLiteral == InitLiteral /\ [][NextLiteral]_vars

\* Characters x and c are the same, up to case when ci.
SameChar(x, c, ci) == IF ci THEN LowerCase(x) = LowerCase(c) ELSE x = c

\* The query occurs in the line at offset pos.
OccursAt(line, query, pos, ci) ==
    /\ pos + Len(query) <= Len(line)
    /\ \A i \in 1..Len(query) : SameChar(line[pos + i], query[i], ci)

\* The leftmost-first non-overlapping occurrences of the query in the line
\* from offset pos on: their start offsets.
RECURSIVE Occurrences(_, _, _, _)
Occurrences(line, query, pos, ci) ==
    IF pos + Len(query) > Len(line) THEN <<>>
    ELSE IF OccursAt(line, query, pos, ci)
         THEN <<pos>> \o Occurrences(line, query, pos + Len(query), ci)
         ELSE Occurrences(line, query, pos + 1, ci)

\* The occurrence of the query at offset pos of line lineNum of file.
Occurrence(file, lineNum, line, pos, n) ==
    [file |-> file, lineNum |-> lineNum, line |-> line, start |-> pos,
     end |-> pos + n, text |-> SubSeq(line, pos + 1, pos + n)]

\* The occurrences of the query in every line of the file, in line order.
RECURSIVE FileOccurrences(_, _, _, _, _)
FileOccurrences(file, lines, lineNum, query, ci) ==
    IF lineNum >= Len(lines) THEN <<>>
    ELSE LET starts == Occurrences(lines[lineNum + 1], query, 0, ci)
         IN  [k \in 1..Len(starts) |->
                 Occurrence(file, lineNum, lines[lineNum + 1], starts[k], Len(query))]
             \o FileOccurrences(file, lines, lineNum + 1, query, ci)

\* C30: a completed literal search of the current file for a non-empty
\* query, the cap not reached, returns exactly the leftmost-first
\* non-overlapping occurrences of the query in every line.
C30_LiteralOccurrences ==
    (/\ Idle
     /\ searches # <<>>
     /\ searches[1].outcome = "found"
     /\ Len(FileOccurrences("f1", Split(vault["f1"]), 0, findText,
                            settings.caseInsensitive)) < MAX_MATCHES
     /\ Len(matches) < MAX_MATCHES)
    => matches = FileOccurrences("f1", Split(vault["f1"]), 0, findText,
                                 settings.caseInsensitive)

\* The same on a document where no lower case is longer than its character.
C30_SameLengthFolding ==
    (\A i \in 1..Len(vault["f1"]) : vault["f1"][i] # "I")
    => C30_LiteralOccurrences

(***************************************************************************)
(* The modal: live search, Skip and Replace on preview items, Replace All. *)
(***************************************************************************)
ModalContents == { <<"a", " ", "b">>, <<"a", "a", NL, "b">> }

ModalQueries == { <<"a">>, <<"b">> }

ModalTemplates == { <<"a">>, <<"b", "b">> }

InitModal ==
    /\ variant = "modal"
    /\ vault \in [Files -> ModalContents]
    /\ activeFile = "f1"
    /\ findText \in ModalQueries
    /\ replaceText \in ModalTemplates
    /\ settings \in {s \in Settings : s.replaceEnabled /\ ~s.caseInsensitive
                                        /\ ~s.wholeWord /\ ~s.useRegEx}
    /\ faults = NoFaults
    /\ Fresh

NextModal ==
    \/ (Idle /\ performLiveSearch)
    \/ \E k \in 1..MAX_MATCHES : (Idle /\ Skip(k))
    \/ (Idle /\ Len(replaces) < MaxReplaces /\ performReplace)
    \/ \E j \in 1..MaxReplaces : ModalRead(j)
    \/ \E j \in 1..MaxReplaces : ModalWrite(j)

SpecModal == InitModal /\ [][NextModal]_vars

\* The change records of batch t: the changes of the panels, the file
\* operations of the modal.
Records(t) == IF variant = "modal" THEN t.fileOperations ELSE t.changes

\* C21: when applying a document's approved replacements yields the
\* content that was read, the document is not written and the batch has no
\* change record for it; a batch that has ended and changed no document
\* has recorded no undo entry.
C21_IdenticalNotWritten ==
    \A j \in 1..Len(replaces) :
        /\ \A n \in 1..Len(replaces[j].rewrote) :
              replaces[j].rewrote[n].modified = replaces[j].rewrote[n].original
              => (/\ replaces[j].rewrote[n].file \notin replaces[j].wrote
                  /\ \A k \in 1..Len(Records(replaces[j])) :
                        Records(replaces[j])[k].path # replaces[j].rewrote[n].file)
        /\ (/\ replaces[j].pc = "done"
            /\ \A n \in 1..Len(replaces[j].rewrote) :
                  replaces[j].rewrote[n].modified = replaces[j].rewrote[n].original)
           => replaces[j].stamp = -1

(***************************************************************************)
(* The impatient user: Replace All is clicked again while the batch        *)
(* replace of the click before is still suspended at a read or a write.    *)
(***************************************************************************)
ReentryContents == { <<"a", "a">>, <<"a", " ", "b">> }

ReentryTemplates == { <<"b">>, <<"b", "a">> }

InitReentry ==
    /\ variant \in {"main", "paged"}
    /\ vault \in {v \in [Files -> ReentryContents] : v["f2"] = <<"a", " ", "b">>}
    /\ activeFile = "f1"
    /\ findText = <<"a">>
    /\ replaceText \in ReentryTemplates
    /\ settings \in {s \in Settings : s.replaceEnabled /\ ~s.caseInsensitive
                                        /\ ~s.wholeWord /\ ~s.useRegEx}
    /\ faults = NoFaults
    /\ Fresh

NextReentry ==
    \/ (Idle /\ searches = <<>> /\ Enter)
    \/ \E i \in 1..(1 + MaxClicks) : SearchRead(i)
    \/ Frame
    \/ (Len(replaces) < MaxClicks /\ ReplaceAll)
    \/ \E j \in 1..MaxClicks : ReplRead(j)
    \/ \E j \in 1..MaxClicks : ReplWrite(j)

SpecReentry == InitReentry /\ [][NextReentry]_vars

\* Batch b read, of a document that batch a had written, the content a
\* wrote, and applied to it matches that a had applied, which changed the
\* content once more.
AppliedAgain(a, b) ==
    \E k \in 1..Len(b.rewrote), c \in 1..Len(a.changes) :
        /\ a.changes[c].path = b.rewrote[k].file
        /\ b.rewrote[k].original = a.changes[c].after
        /\ ~b.rewrote[k].threw
        /\ b.rewrote[k].modified # b.rewrote[k].original
        /\ Ids(b.rewrote[k].ms) \cap Ids(a.handed) # {}

\* C31: of two batch replaces that were handed matches of the same scan,
\* the later one does not apply to a document the earlier one rewrote a
\* match the earlier one applied.
C31_AppliedOnce ==
    \A i, j \in 1..Len(replaces) :
        (i < j /\ replaces[i].scan = replaces[j].scan)
        => ~AppliedAgain(replaces[i], replaces[j])

(***************************************************************************)
(* Searches started at will over documents that hold, together, more       *)
(* matches than the cap: a search may start while another is suspended.    *)
(***************************************************************************)
InterleavedContents == { <<"a", "a", "a">>, <<"a", NL, "a", "a">>, <<"b">> }

InitInterleaved ==
    /\ variant \in {"main", "paged"}
    /\ vault \in [Files -> InterleavedContents]
    /\ activeFile = "f1"
    /\ findText = <<"a">>
    /\ replaceText = <<>>
    /\ settings \in {s \in Settings : s.replaceEnabled /\ ~s.caseInsensitive
                                        /\ ~s.wholeWord}
    /\ faults = NoFaults
    /\ Fresh

NextInterleaved ==
    \/ Enter
    \/ \E i \in 1..MaxSearches : SearchRead(i)
    \/ Frame

SpecInterleaved == InitInterleaved /\ [][NextInterleaved]_vars

\* C32: the match set never holds more than MAX_MATCHES matches, whether
\* one search runs or two run interleaved.
C32_MatchSetCapped == Len(matches) <= MAX_MATCHES

\* A search that started while an earlier one was suspended has ended, so
\* has every other, and the match set is full.
C32_Witness ==
    /\ \E i \in 1..Len(searches) : searches[i].raced
    /\ \A i \in 1..Len(searches) : searches[i].pc = "done"
    /\ frames = <<>>
    /\ Len(matches) = MAX_MATCHES

(***************************************************************************)
(* The modal over a vault whose reads and writes may start to reject.      *)
(***************************************************************************)
InitModalFaults ==
    /\ variant = "modal"
    /\ vault \in [Files -> ModalContents]
    /\ activeFile = "f1"
    /\ findText \in ModalQueries
    /\ replaceText \in ModalTemplates
    /\ settings \in {s \in Settings : s.replaceEnabled /\ ~s.caseInsensitive
                                        /\ ~s.wholeWord /\ ~s.useRegEx}
    /\ faults = NoFaults
    /\ Fresh

NextModalFaults ==
    \/ \E kind \in {"read", "write"} : \E f \in Files : Fault(kind, f)
    \/ (Idle /\ performLiveSearch)
    \/ \E k \in 1..MAX_MATCHES : (Idle /\ Skip(k))
    \/ (Idle /\ Len(replaces) < MaxReplaces /\ performReplace)
    \/ \E j \in 1..MaxReplaces : ModalRead(j)
    \/ \E j \in 1..MaxReplaces : ModalWrite(j)

SpecModalFaults == InitModalFaults /\ [][NextModalFaults]_vars

\* The undo entries of the build, and the document records of an entry
\* with the content each holds as the one before the write.
Entries == IF variant = "modal" THEN undoHistory.history ELSE history

EntryRecords(e) ==
    IF variant = "modal"
    THEN [k \in 1..Len(e.fileOperations) |->
             [path |-> e.fileOperations[k].path,
              before |-> e.fileOperations[k].originalContent]]
    ELSE [k \in 1..Len(e.changes) |->
             [path |-> e.changes[k].path, before |-> e.changes[k].before]]

\* C33: once a batch replace has ended, every document it wrote and
\* changed is in the undo entry recorded for that batch with the content it had before the
\* write, whatever other document of the batch failed; and every entry of
\* the history has at least one document record.
C33_WrittenIsRecorded ==
    /\ \A j \in 1..Len(replaces) :
          replaces[j].pc = "done"
          => \A n \in 1..Len(replaces[j].rewrote) :
                (/\ replaces[j].rewrote[n].file \in replaces[j].wrote
                 /\ replaces[j].rewrote[n].modified # replaces[j].rewrote[n].original)
                => \E i \in 1..Len(Entries) :
                      /\ Entries[i].timestamp = replaces[j].stamp
                      /\ \E k \in 1..Len(EntryRecords(Entries[i])) :
                            /\ EntryRecords(Entries[i])[k].path
                                  = replaces[j].rewrote[n].file
                            /\ EntryRecords(Entries[i])[k].before
                                  = replaces[j].rewrote[n].original
    /\ \A i \in 1..Len(Entries) : Len(EntryRecords(Entries[i])) > 0

(***************************************************************************)
(* Batches undone in a row.                                                *)
(***************************************************************************)
\* The last n entries of s.
Suffix(s, n) == SubSeq(s, Len(s) - n + 1, Len(s))

\* The undos started since the last batch.
TrailingUndos == {v \in 1..Len(undos) : undos[v].nrep = Len(replaces)}

\* The last n batches each recorded an entry, no undo came between them,
\* and exactly n undos have followed, all of which have ended.
UndoneInARow(n) ==
    /\ n <= Len(replaces)
    /\ Cardinality(TrailingUndos) = n
    /\ \A v \in 1..Len(undos) :
          /\ undos[v].pc = "done"
          /\ undos[v].nrep = Len(replaces) \/ undos[v].nrep <= Len(replaces) - n
    /\ \A j \in (Len(replaces) - n + 1)..Len(replaces) :
          replaces[j].pc = "done" /\ replaces[j].stamp # -1

\* The first of the last n batches.
FirstOfLast(n) == replaces[Len(replaces) - n + 1]

\* C34 as stated: n <= capacity batches that each changed a document,
\* undone by n undos in a row, leave every document as it was before the
\* first of them and the history as it was before the first of them.
C34_UndoAllRestores ==
    \A n \in 1..MAX_HISTORY :
        UndoneInARow(n)
        => (/\ vault = FirstOfLast(n).before
            /\ history = FirstOfLast(n).had)

\* C34, amended: the documents are as before the first batch, and the
\* history holds what it held before the first batch less the oldest
\* entries that the n pushes evicted: the most recent capacity - n of them
\* at most.
C34_UndoAllRestoresKept ==
    \A n \in 1..MAX_HISTORY :
        UndoneInARow(n)
        => (/\ vault = FirstOfLast(n).before
            /\ history = Suffix(FirstOfLast(n).had,
                                Min(Len(FirstOfLast(n).had), MAX_HISTORY - n)))

\* As many batches as the history holds, the first of which found an entry
\* in the history, have been undone in a row, and the documents had
\* changed.
C34_Witness ==
    /\ UndoneInARow(MAX_HISTORY)
    /\ FirstOfLast(MAX_HISTORY).had # <<>>
    /\ replaces[Len(replaces)].before # vault

(***************************************************************************)
(* The not-found list from one search to the next: the user changes the    *)
(* query between searches and waits for each search to end.                *)
(***************************************************************************)
NotFoundContents == { <<"a", "a">>, <<"a", " ", "b">> }

NotFoundQueries == { <<"a">>, <<"b">>, <<"a", "|", "b">> }

InitNotFound ==
    /\ variant \in {"main", "paged"}
    /\ vault \in {v \in [Files -> NotFoundContents] : v["f2"] = <<"a", "a">>}
    /\ activeFile = "f1"
    /\ findText \in NotFoundQueries
    /\ replaceText = <<>>
    /\ settings \in {s \in Settings : s.replaceEnabled /\ ~s.caseInsensitive
                                        /\ ~s.wholeWord}
    /\ faults = NoFaults
    /\ Fresh

NextNotFound ==
    \/ \E text \in NotFoundQueries : (Idle /\ Type(text))
    \/ (Idle /\ Enter)
    \/ (Idle /\ Debounce)
    \/ \E i \in 1..MaxSearches : SearchRead(i)
    \/ Frame

SpecNotFound == InitNotFound /\ [][NextNotFound]_vars

\* Every search has ended, none started while another was suspended, all
\* were regular-expression searches (whose scan tracks the words found), and
\* the last one went through its scan.
LastCompleted ==
    /\ searches # <<>>
    /\ \A i \in 1..Len(searches) :
          /\ searches[i].pc = "done"
          /\ ~searches[i].raced
          /\ searches[i].useRegEx
    /\ frames = <<>>
    /\ searches[Len(searches)].outcome = "found"

\* C35: once a search has completed, no not-found list is displayed if its
\* query has no pipe or the scan found every one of its words.
C35_NotFoundIsCurrent ==
    (/\ LastCompleted
     /\ \/ ~IsPipe(searches[Len(searches)].searchText)
        \/ \A k \in 1..Len(searches[Len(searches)].searchWords) :
              searches[Len(searches)].searchWords[k]
                 \in searches[Len(searches)].foundWords)
    => notFound = <<>>

(***************************************************************************)
(* Searches whose scans are followed one loop iteration at a time, over    *)
(* queries that match the empty text.  Reads return and animation frames   *)
(* come: every suspended step is taken in the end.                         *)
(***************************************************************************)
ScanContents == { <<"b">>, <<"a", "a", NL, "b">> }

ScanQueries == { <<"a">>, <<"a", "*">>, <<"a", "|", "b">> }

InitScan ==
    /\ variant \in {"main", "paged"}
    /\ vault \in {v \in [Files -> ScanContents] : v["f2"] = <<"b">>}
    /\ activeFile = "f1"
    /\ findText \in ScanQueries
    /\ replaceText = <<>>
    /\ settings \in {s \in Settings : s.replaceEnabled /\ ~s.caseInsensitive
                                        /\ ~s.wholeWord}
    /\ faults = NoFaults
    /\ Fresh

\* Enter and the animation frame, which wait for a running scan to return.
EnterBetweenScans == cursor.task = 0 /\ Enter

FrameBetweenScans == cursor.task = 0 /\ Frame

NextScan ==
    \/ EnterBetweenScans
    \/ \E i \in 1..MaxSearches : ScanBegin(i)
    \/ \E i \in 1..MaxSearches : ExecStep(i)
    \/ FrameBetweenScans

SpecScan ==
    /\ InitScan
    /\ [][NextScan]_vars
    /\ \A i \in 1..MaxSearches : WF_vars(ScanBegin(i)) /\ WF_vars(ExecStep(i))
    /\ WF_vars(FrameBetweenScans)

MaxSizeTexts == { <<>>, <<"a">>, <<"0">>, <<"1">>, <<"2">>, <<"3">>, <<"1", "0">> }

InitUndoHistory ==
    /\ variant = "modal"
    /\ vault = [f \in Files |-> <<"a", " ", "b">>]
    /\ activeFile = "f1"
    /\ findText = <<"a">>
    /\ replaceText = <<>>
    /\ settings \in {s \in Settings : s.replaceEnabled /\ ~s.caseInsensitive
                                        /\ ~s.wholeWord /\ ~s.useRegEx /\ ~s.allFiles}
    /\ faults = NoFaults
    /\ Fresh

NextUndoHistory ==
    \/ UndoHistoryAdd
    \/ UndoHistoryRemove
    \/ UndoHistoryClear
    \/ \E value \in MaxSizeTexts : SetMaxUndoHistory(value)

SpecUndoHistory == InitUndoHistory /\ [][NextUndoHistory]_vars

\* C37: the UndoHistory object never stores more entries than its current
\* maxSize.
C37_WithinMaxSize == Len(undoHistory.history) <= undoHistory.maxSize

====
